---- MODULE Spec2Model ----
(***************************************************************************)
(* csscade: merging of CSS declaration lists.                              *)
(*                                                                         *)
(* A CSS value is modelled as the sequence of its whitespace-separated     *)
(* tokens: str.split() yields that sequence and an f-string join with ' ' *)
(* is concatenation, so a longhand value of several tokens changes the     *)
(* token count of a recombined shorthand exactly as in the code.  The      *)
(* empty sequence is the empty string.                                     *)
(***************************************************************************)
EXTENDS Integers, Sequences, FiniteSets, TLC

(***************************************************************************)
(* Bounds                                                                  *)
(***************************************************************************)
NumTokens == 3
MaxTotal == 3
\* A further call on the same instance is explored when both calls have at
\* most this many properties in all.
MaxRepeat == 1

TokenList == <<"1px", "2px", "9px", "4em", "5em", "6em">>
ValueTokens == {TokenList[i] : i \in 1..NumTokens}
SLASH == "/"
IMPORTANT == "!important"
SLASHCALC == "calc(1px/2)"

None == [name |-> "<none>", value |-> <<>>, important |-> FALSE]

(***************************************************************************)
(* models.py: CSSProperty                                                  *)
(***************************************************************************)
CSSProperty(n, v, i) == [name |-> n, value |-> v, important |-> i]

(***************************************************************************)
(* Python dict with insertion order: a sequence of properties with         *)
(* pairwise distinct names; assigning an existing key keeps its position.  *)
(***************************************************************************)
DictKeys(d) == {d[i].name : i \in DOMAIN d}

DictHas(d, k) == k \in DictKeys(d)

DictGet(d, k) == IF DictHas(d, k) THEN d[CHOOSE i \in DOMAIN d : d[i].name = k] ELSE None

\* Mutant of DictSet: a new key is put in front instead of at the end.
DictSet_Prepend(d, p) ==
    IF DictHas(d, p.name)
    THEN [i \in DOMAIN d |-> IF d[i].name = p.name THEN p ELSE d[i]]
    ELSE <<p>> \o d

DictSet(d, p) ==
    IF DictHas(d, p.name)
    THEN [i \in DOMAIN d |-> IF d[i].name = p.name THEN p ELSE d[i]]
    ELSE Append(d, p)

RECURSIVE DictUpdate(_, _)
DictUpdate(d, ps) == IF ps = <<>> THEN d ELSE DictUpdate(DictSet(d, Head(ps)), Tail(ps))

(***************************************************************************)
(* resolvers/conflict_detector.py: the Conflict Catalog                    *)
(***************************************************************************)
shorthand_map ==
    ("margin" :> {"margin-top", "margin-right", "margin-bottom", "margin-left"}) @@
    ("padding" :> {"padding-top", "padding-right", "padding-bottom", "padding-left"}) @@
    ("border" :> {"border-width", "border-style", "border-color",
                  "border-top", "border-right", "border-bottom", "border-left",
                  "border-top-width", "border-right-width", "border-bottom-width", "border-left-width",
                  "border-top-style", "border-right-style", "border-bottom-style", "border-left-style",
                  "border-top-color", "border-right-color", "border-bottom-color", "border-left-color"}) @@
    ("border-width" :> {"border-top-width", "border-right-width", "border-bottom-width", "border-left-width"}) @@
    ("border-style" :> {"border-top-style", "border-right-style", "border-bottom-style", "border-left-style"}) @@
    ("border-color" :> {"border-top-color", "border-right-color", "border-bottom-color", "border-left-color"}) @@
    ("border-top" :> {"border-top-width", "border-top-style", "border-top-color"}) @@
    ("border-right" :> {"border-right-width", "border-right-style", "border-right-color"}) @@
    ("border-bottom" :> {"border-bottom-width", "border-bottom-style", "border-bottom-color"}) @@
    ("border-left" :> {"border-left-width", "border-left-style", "border-left-color"}) @@
    ("background" :> {"background-color", "background-image", "background-repeat",
                      "background-attachment", "background-position", "background-size",
                      "background-origin", "background-clip"}) @@
    ("font" :> {"font-style", "font-variant", "font-weight", "font-size", "line-height", "font-family"}) @@
    ("list-style" :> {"list-style-type", "list-style-position", "list-style-image"}) @@
    ("outline" :> {"outline-width", "outline-style", "outline-color"}) @@
    ("flex" :> {"flex-grow", "flex-shrink", "flex-basis"}) @@
    ("grid" :> {"grid-template-rows", "grid-template-columns", "grid-template-areas",
                "grid-auto-rows", "grid-auto-columns", "grid-auto-flow"}) @@
    ("grid-template" :> {"grid-template-rows", "grid-template-columns", "grid-template-areas"}) @@
    ("grid-gap" :> {"grid-row-gap", "grid-column-gap"}) @@
    ("gap" :> {"row-gap", "column-gap"}) @@
    ("animation" :> {"animation-name", "animation-duration", "animation-timing-function",
                     "animation-delay", "animation-iteration-count", "animation-direction",
                     "animation-fill-mode", "animation-play-state"}) @@
    ("transition" :> {"transition-property", "transition-duration",
                      "transition-timing-function", "transition-delay"}) @@
    ("text-decoration" :> {"text-decoration-line", "text-decoration-color",
                           "text-decoration-style", "text-decoration-thickness"}) @@
    ("columns" :> {"column-width", "column-count"}) @@
    ("column-rule" :> {"column-rule-width", "column-rule-style", "column-rule-color"}) @@
    ("border-radius" :> {"border-top-left-radius", "border-top-right-radius",
                         "border-bottom-right-radius", "border-bottom-left-radius"}) @@
    ("overflow" :> {"overflow-x", "overflow-y"}) @@
    ("place-content" :> {"align-content", "justify-content"}) @@
    ("place-items" :> {"align-items", "justify-items"}) @@
    ("place-self" :> {"align-self", "justify-self"})

is_shorthand(property_name) == property_name \in DOMAIN shorthand_map

\* The keys of shorthand_map in the order of the literal, the order
\* shorthand_map.items() gives them in.
ShorthandKeys ==
    <<"margin", "padding", "border", "border-width", "border-style", "border-color",
      "border-top", "border-right", "border-bottom", "border-left", "background", "font",
      "list-style", "outline", "flex", "grid", "grid-template", "grid-gap", "gap",
      "animation", "transition", "text-decoration", "columns", "column-rule",
      "border-radius", "overflow", "place-content", "place-items", "place-self">>

\* Mutant of AddShorthand: the entry of a longhand is replaced, not added to.
AddShorthand_Overwrite(index, shorthand, longhands) ==
    [l \in DOMAIN index \cup longhands |->
        IF l \in longhands THEN {shorthand} ELSE index[l]]

\* The inner loop of __init__ for one shorthand: each of its longhands gets
\* an entry if it has none, and the shorthand is added to the entry.
AddShorthand(index, shorthand, longhands) ==
    [l \in DOMAIN index \cup longhands |->
        IF l \in longhands
        THEN (IF l \in DOMAIN index THEN index[l] ELSE {}) \cup {shorthand}
        ELSE index[l]]

RECURSIVE BuildReverseIndex(_, _, _)
\* The outer loop of __init__ over the items of the table.
BuildReverseIndex(table, keys, index) ==
    IF keys = <<>> THEN index
    ELSE BuildReverseIndex(table, Tail(keys), AddShorthand(index, Head(keys), table[Head(keys)]))

\* self.longhand_to_shorthands as __init__ leaves it.
longhand_to_shorthands == BuildReverseIndex(shorthand_map, ShorthandKeys, <<>>)

(***************************************************************************)
(* handlers/shorthand.py: ShorthandResolver                                *)
(* An expansion is [raised, props]: raised is TRUE when the Python code    *)
(* raises an exception instead of returning a list.                        *)
(***************************************************************************)
Returned(ps) == [raised |-> FALSE, props |-> ps]
Raised == [raised |-> TRUE, props |-> <<>>]

\* The four names f'{prefix}-top' .. f'{prefix}-left' (margin, padding) and
\* f'border-top-{type}' .. f'border-left-{type}' (border-width/style/color).
BoxSideNames(prefix) ==
    CASE prefix = "margin" -> <<"margin-top", "margin-right", "margin-bottom", "margin-left">>
      [] prefix = "padding" -> <<"padding-top", "padding-right", "padding-bottom", "padding-left">>
      [] prefix = "border-width" ->
            <<"border-top-width", "border-right-width", "border-bottom-width", "border-left-width">>
      [] prefix = "border-style" ->
            <<"border-top-style", "border-right-style", "border-bottom-style", "border-left-style">>
      [] prefix = "border-color" ->
            <<"border-top-color", "border-right-color", "border-bottom-color", "border-left-color">>

\* Four properties, one per name, the i-th with the single token vals[i].
FourProps(names, vals) == [i \in 1..4 |-> CSSProperty(names[i], <<vals[i]>>, FALSE)]

\* Mutant of _expand_box_model: three values give left the bottom value.
_expand_box_model_LeftFromBottom(value, prefix) ==
    LET parts == value
        names == BoxSideNames(prefix)
    IN  CASE Len(parts) = 1 -> FourProps(names, <<parts[1], parts[1], parts[1], parts[1]>>)
          [] Len(parts) = 2 -> FourProps(names, <<parts[1], parts[2], parts[1], parts[2]>>)
          [] Len(parts) = 3 -> FourProps(names, <<parts[1], parts[2], parts[3], parts[3]>>)
          [] Len(parts) = 4 -> FourProps(names, <<parts[1], parts[2], parts[3], parts[4]>>)
          [] OTHER -> <<CSSProperty(prefix, value, FALSE)>>

_expand_box_model(value, prefix) ==
    LET parts == value
        names == BoxSideNames(prefix)
    IN  CASE Len(parts) = 1 -> FourProps(names, <<parts[1], parts[1], parts[1], parts[1]>>)
          [] Len(parts) = 2 -> FourProps(names, <<parts[1], parts[2], parts[1], parts[2]>>)
          [] Len(parts) = 3 -> FourProps(names, <<parts[1], parts[2], parts[3], parts[2]>>)
          [] Len(parts) = 4 -> FourProps(names, <<parts[1], parts[2], parts[3], parts[4]>>)
          [] OTHER -> <<CSSProperty(prefix, value, FALSE)>>

BorderStyles == {"none", "hidden", "dotted", "dashed", "solid", "double",
                 "groove", "ridge", "inset", "outset"}

\* any(unit in part for unit in ['px', 'em', 'rem', '%']) or a width keyword,
\* decided for the tokens of the model: the substring test also holds of the
\* colour name lemonchiffon ('em'), and of none of red, blue, 0.
IsBorderWidth(part) ==
    part \in {"1px", "2px", "9px", "4em", "5em", "6em", "calc(1px/2)", "lemonchiffon",
              "thin", "medium", "thick"}

RECURSIVE LastWhere(_, _, _)
\* The last token of parts in class c ("style", "width", "color"), or "" when
\* there is none: the loop of _expand_border keeps the last match.
LastWhere(parts, c, found) ==
    IF parts = <<>> THEN found
    ELSE LET part == Head(parts)
             cls == IF part \in BorderStyles THEN "style"
                    ELSE IF IsBorderWidth(part) THEN "width" ELSE "color"
         IN  LastWhere(Tail(parts), c, IF cls = c THEN part ELSE found)

_expand_border(value) ==
    LET parts == value
        width == LastWhere(parts, "width", "")
        style == LastWhere(parts, "style", "")
        color == LastWhere(parts, "color", "")
        properties ==
            (IF width # "" THEN FourProps(BoxSideNames("border-width"), <<width, width, width, width>>)
             ELSE <<>>) \o
            (IF style # "" THEN FourProps(BoxSideNames("border-style"), <<style, style, style, style>>)
             ELSE <<>>) \o
            (IF color # "" THEN FourProps(BoxSideNames("border-color"), <<color, color, color, color>>)
             ELSE <<>>)
    IN  IF properties # <<>> THEN properties ELSE <<CSSProperty("border", value, FALSE)>>

CornerNames == <<"border-top-left-radius", "border-top-right-radius",
                 "border-bottom-right-radius", "border-bottom-left-radius">>

\* Number of '/' characters in the value string.
SlashCount(value) ==
    Cardinality({i \in DOMAIN value : value[i] = SLASH \/ value[i] = SLASHCALC})

_expand_corners(value) ==
    IF SlashCount(value) > 0
    THEN IF SlashCount(value) = 1
         THEN Returned(<<CSSProperty("border-radius", value, FALSE)>>)
         ELSE Raised     \* horiz, vert = value.split('/') : too many values to unpack
    ELSE LET parts == value
         IN  Returned(
             CASE Len(parts) = 1 -> FourProps(CornerNames, <<parts[1], parts[1], parts[1], parts[1]>>)
               [] Len(parts) = 2 -> FourProps(CornerNames, <<parts[1], parts[2], parts[1], parts[2]>>)
               [] Len(parts) = 3 -> FourProps(CornerNames, <<parts[1], parts[2], parts[3], parts[2]>>)
               [] Len(parts) = 4 -> FourProps(CornerNames, <<parts[1], parts[2], parts[3], parts[4]>>)
               [] OTHER -> <<CSSProperty("border-radius", value, FALSE)>>)

\* _expand_overflow, _expand_gap, _expand_place_content/items/self: the two
\* longhand names of each two-axis shorthand.
TwoAxisNames(name) ==
    CASE name = "overflow" -> <<"overflow-x", "overflow-y">>
      [] name = "gap" -> <<"row-gap", "column-gap">>
      [] name = "place-content" -> <<"align-content", "justify-content">>
      [] name = "place-items" -> <<"align-items", "justify-items">>
      [] name = "place-self" -> <<"align-self", "justify-self">>

_expand_two_axis(name, value) ==
    LET parts == value
        names == TwoAxisNames(name)
    IN  CASE Len(parts) = 1 -> <<CSSProperty(names[1], <<parts[1]>>, FALSE),
                                 CSSProperty(names[2], <<parts[1]>>, FALSE)>>
          [] Len(parts) = 2 -> <<CSSProperty(names[1], <<parts[1]>>, FALSE),
                                 CSSProperty(names[2], <<parts[2]>>, FALSE)>>
          [] OTHER -> <<CSSProperty(name, value, FALSE)>>

expand_shorthand(property_name, value) ==
    CASE property_name \in {"margin", "padding", "border-width", "border-style", "border-color"} ->
            Returned(_expand_box_model(value, property_name))
      [] property_name = "border" -> Returned(_expand_border(value))
      [] property_name = "border-radius" -> _expand_corners(value)
      [] property_name \in {"overflow", "gap", "place-content", "place-items", "place-self"} ->
            Returned(_expand_two_axis(property_name, value))
      [] OTHER -> Returned(<<CSSProperty(property_name, value, FALSE)>>)

(***************************************************************************)
(* utils/important_parser.py                                               *)
(***************************************************************************)
\* Mutant of parse_value_with_important: the annotation is detected but left
\* in the value.
parse_value_with_important_KeepsText(value) ==
    IF value = <<>> THEN [clean |-> value, important |-> FALSE]
    ELSE IF value[Len(value)] = IMPORTANT
         THEN [clean |-> value, important |-> TRUE]
         ELSE [clean |-> value, important |-> FALSE]

\* value.endswith('!important'): the trailing token is the annotation.
parse_value_with_important(value) ==
    IF value = <<>> THEN [clean |-> value, important |-> FALSE]
    ELSE IF value[Len(value)] = IMPORTANT
         THEN [clean |-> SubSeq(value, 1, Len(value) - 1), important |-> TRUE]
         ELSE [clean |-> value, important |-> FALSE]

(***************************************************************************)
(* Messages appended to info_messages / warning_messages: the kind of the  *)
(* f-string and the name it interpolates.                                  *)
(***************************************************************************)
Msg(kind, n) == <<kind, n>>

(***************************************************************************)
(* property_merger_full_expand.py / property_merger_hybrid.py              *)
(***************************************************************************)
ValidStrategies == {"match", "respect", "override", "force", "strip"}

\* border-color-top -> border-top-color and the like (full-expand merger only).
_fix_property_name(name) ==
    CASE name = "border-color-top" -> "border-top-color"
      [] name = "border-color-right" -> "border-right-color"
      [] name = "border-color-bottom" -> "border-bottom-color"
      [] name = "border-color-left" -> "border-left-color"
      [] name = "border-width-top" -> "border-top-width"
      [] name = "border-width-right" -> "border-right-width"
      [] name = "border-width-bottom" -> "border-bottom-width"
      [] name = "border-width-left" -> "border-left-width"
      [] name = "border-style-top" -> "border-top-style"
      [] name = "border-style-right" -> "border-right-style"
      [] name = "border-style-bottom" -> "border-bottom-style"
      [] name = "border-style-left" -> "border-left-style"
      [] OTHER -> name

\* if prop.important: longhand.important = True, for every longhand of the list
InheritImportant(longhands, important) ==
    [i \in DOMAIN longhands |->
        IF important THEN [longhands[i] EXCEPT !.important = TRUE] ELSE longhands[i]]

RECURSIVE ExpandLoop(_, _, _, _)
\* The for loop of _expand_all_properties; fix says whether names are fixed
\* first (the full-expand merger does, the hybrid one does not).
ExpandLoop(properties, fix, expanded, warnings) ==
    IF properties = <<>> THEN [expanded |-> expanded, warnings |-> warnings]
    ELSE LET p0 == Head(properties)
             prop == IF fix /\ _fix_property_name(p0.name) # p0.name
                     THEN CSSProperty(_fix_property_name(p0.name), p0.value, p0.important)
                     ELSE p0
         IN  IF is_shorthand(prop.name)
             THEN LET e == expand_shorthand(prop.name, prop.value)
                  IN  IF e.raised
                      THEN ExpandLoop(Tail(properties), fix, DictSet(expanded, prop),
                                      Append(warnings, Msg("could_not_expand", prop.name)))
                      ELSE ExpandLoop(Tail(properties), fix,
                                      DictUpdate(expanded, InheritImportant(e.props, prop.important)),
                                      warnings)
             ELSE ExpandLoop(Tail(properties), fix, DictSet(expanded, prop), warnings)

_expand_all_properties(properties, fix) == ExpandLoop(properties, fix, <<>>, <<>>)

\* Mutant of _apply_important_strategy: 'match' does not carry the
\* original's importance over.
_apply_important_strategy_NoMatch(original, override, strategy) ==
    LET parsed == parse_value_with_important(override.value)
        has_important == parsed.important
        orig_important == original # None /\ original.important
        result == CSSProperty(override.name, parsed.clean, has_important)
    IN  CASE strategy = "force" /\ ~result.important ->
                [prop |-> [result EXCEPT !.important = TRUE],
                 info |-> <<Msg("force_added", override.name)>>, warnings |-> <<>>]
          [] strategy = "strip" /\ result.important ->
                [prop |-> [result EXCEPT !.important = FALSE],
                 info |-> <<Msg("strip_removed", override.name)>>, warnings |-> <<>>]
          [] strategy = "override" /\ orig_important /\ ~has_important ->
                [prop |-> result, info |-> <<>>,
                 warnings |-> <<Msg("override_may_not_apply", override.name)>>]
          [] OTHER -> [prop |-> result, info |-> <<>>, warnings |-> <<>>]

\* original is None when the name is not in the merged map.
_apply_important_strategy(original, override, strategy) ==
    LET parsed == parse_value_with_important(override.value)
        has_important == parsed.important
        orig_important == original # None /\ original.important
        result == CSSProperty(override.name, parsed.clean, has_important)
    IN  CASE strategy = "match" /\ orig_important /\ ~has_important ->
                [prop |-> [result EXCEPT !.important = TRUE],
                 info |-> <<Msg("match_marked", override.name)>>, warnings |-> <<>>]
          [] strategy = "force" /\ ~result.important ->
                [prop |-> [result EXCEPT !.important = TRUE],
                 info |-> <<Msg("force_added", override.name)>>, warnings |-> <<>>]
          [] strategy = "strip" /\ result.important ->
                [prop |-> [result EXCEPT !.important = FALSE],
                 info |-> <<Msg("strip_removed", override.name)>>, warnings |-> <<>>]
          [] strategy = "override" /\ orig_important /\ ~has_important ->
                [prop |-> result, info |-> <<>>,
                 warnings |-> <<Msg("override_may_not_apply", override.name)>>]
          [] OTHER -> [prop |-> result, info |-> <<>>, warnings |-> <<>>]

RECURSIVE MergeLoop(_, _, _, _, _)
\* The for loop of _merge_longhands (and of the cascade merges) over the
\* override entries.
MergeLoop(overrides, strategy, merged, info, warnings) ==
    IF overrides = <<>> THEN [merged |-> merged, info |-> info, warnings |-> warnings]
    ELSE LET override_prop == Head(overrides)
             original_prop == DictGet(merged, override_prop.name)
         IN  IF strategy = "respect" /\ original_prop # None /\ original_prop.important
             THEN MergeLoop(Tail(overrides), strategy, merged,
                            Append(info, Msg("respect_skip", override_prop.name)), warnings)
             ELSE LET r == _apply_important_strategy(original_prop, override_prop, strategy)
                  IN  MergeLoop(Tail(overrides), strategy, DictSet(merged, r.prop),
                                info \o r.info, warnings \o r.warnings)

\* Mutant of StartFromSource: the merged map starts empty.
StartFromSource_Empty(source_expanded) == <<>>

\* merged = {}; merged.update(source_expanded): a copy of the map, with its
\* entries in their order.
StartFromSource(source_expanded) == source_expanded

\* Mutant of _merge_longhands: 'respect' is treated like 'override'.
_merge_longhands_NoRespect(source_expanded, override_expanded, strategy) ==
    MergeLoop(override_expanded, IF strategy = "respect" THEN "override" ELSE strategy,
              StartFromSource(source_expanded), <<>>, <<>>)

_merge_longhands(source_expanded, override_expanded, strategy) ==
    MergeLoop(override_expanded, strategy, StartFromSource(source_expanded), <<>>, <<>>)

\* A combination is [some, truthy, value]: some is FALSE for None, truthy is
\* the truth value Python gives the returned string.
NoCombination == [some |-> FALSE, truthy |-> FALSE, value |-> <<>>]
Combination(v, t) == [some |-> TRUE, truthy |-> t, value |-> v]

\* Mutant of CombineFour: the three-value notation is chosen when the first
\* and third value are equal.
CombineFour_WrongPair(a, b, c, d) ==
    IF a = b /\ b = c /\ c = d THEN [some |-> TRUE, truthy |-> a # <<>>, value |-> a]
    ELSE IF a = c /\ d = b THEN [some |-> TRUE, truthy |-> TRUE, value |-> a \o b]
    ELSE IF a = c THEN [some |-> TRUE, truthy |-> TRUE, value |-> a \o b \o c]
    ELSE [some |-> TRUE, truthy |-> TRUE, value |-> a \o b \o c \o d]

\* Shortest 1/2/3/4-value notation of four values a, b, c, d
\* (top right bottom left, or the corners tl tr br bl).
CombineFour(a, b, c, d) ==
    IF a = b /\ b = c /\ c = d THEN Combination(a, a # <<>>)
    ELSE IF a = c /\ d = b THEN Combination(a \o b, TRUE)
    ELSE IF d = b THEN Combination(a \o b \o c, TRUE)
    ELSE Combination(a \o b \o c \o d, TRUE)

CombineTwo(x, y) ==
    IF x = y THEN Combination(x, x # <<>>) ELSE Combination(x \o y, TRUE)

FullExpandBoxNames == {"margin", "padding", "border-width", "border-style", "border-color"}
HybridBoxNames == {"margin", "padding"}

\* boxNames holds the names of the first branch: five in the full-expand
\* merger, margin and padding in the hybrid one, which has no other branch.
_try_combine_to_shorthand(values, shorthand_name, boxNames) ==
    IF shorthand_name \in boxNames
    THEN IF Len(values) = 4
         THEN CombineFour(values[1], values[2], values[3], values[4]) ELSE NoCombination
    ELSE IF boxNames = FullExpandBoxNames /\ shorthand_name = "border-radius"
    THEN IF Len(values) = 4
         THEN CombineFour(values[1], values[2], values[3], values[4]) ELSE NoCombination
    ELSE IF boxNames = FullExpandBoxNames /\ shorthand_name \in {"overflow", "gap"}
    THEN IF Len(values) = 2 THEN CombineTwo(values[1], values[2]) ELSE NoCombination
    ELSE NoCombination

Group(longhand_names, shorthand_name) == [longhands |-> longhand_names, shorthand |-> shorthand_name]

FullExpandGroups ==
    << Group(BoxSideNames("margin"), "margin"),
       Group(BoxSideNames("padding"), "padding"),
       Group(BoxSideNames("border-width"), "border-width"),
       Group(BoxSideNames("border-style"), "border-style"),
       Group(BoxSideNames("border-color"), "border-color"),
       Group(CornerNames, "border-radius"),
       Group(TwoAxisNames("overflow"), "overflow"),
       Group(TwoAxisNames("gap"), "gap") >>

HybridGroups ==
    << Group(BoxSideNames("margin"), "margin"),
       Group(BoxSideNames("padding"), "padding") >>

SeqToSet(s) == {s[i] : i \in DOMAIN s}

\* Mutant of SameImportance: 'any_important' in place of 'not any_important'.
SameImportance_AnyImportant(longhands, names) ==
    LET all_important == \A i \in DOMAIN names : DictGet(longhands, names[i]).important
        any_important == \E i \in DOMAIN names : DictGet(longhands, names[i]).important
    IN  all_important \/ any_important

\* Whether Python's all(...) and any(...) over the longhands' important flags
\* allow one shorthand declaration.
SameImportance(longhands, names) ==
    LET all_important == \A i \in DOMAIN names : DictGet(longhands, names[i]).important
        any_important == \E i \in DOMAIN names : DictGet(longhands, names[i]).important
    IN  all_important \/ ~any_important

RECURSIVE OptimizeLoop(_, _, _, _, _)
\* The loop of _optimize_to_shorthands over shorthand_groups.
OptimizeLoop(groups, longhands, boxNames, result, processed) ==
    IF groups = <<>> THEN [result |-> result, processed |-> processed]
    ELSE LET names == Head(groups).longhands
             shorthand_name == Head(groups).shorthand
         IN  IF \A i \in DOMAIN names : DictHas(longhands, names[i]) /\ names[i] \notin processed
             THEN LET values == [i \in DOMAIN names |-> DictGet(longhands, names[i]).value]
                      combined == _try_combine_to_shorthand(values, shorthand_name, boxNames)
                      all_important ==
                          \A i \in DOMAIN names : DictGet(longhands, names[i]).important
                  IN  IF combined.truthy
                      THEN IF SameImportance(longhands, names)
                           THEN OptimizeLoop(Tail(groups), longhands, boxNames,
                                    Append(result, CSSProperty(shorthand_name, combined.value, all_important)),
                                    processed \cup SeqToSet(names))
                           ELSE OptimizeLoop(Tail(groups), longhands, boxNames,
                                    result \o [i \in DOMAIN names |-> DictGet(longhands, names[i])],
                                    processed \cup SeqToSet(names))
                      ELSE OptimizeLoop(Tail(groups), longhands, boxNames, result, processed)
             ELSE OptimizeLoop(Tail(groups), longhands, boxNames, result, processed)

RECURSIVE Remaining(_, _)
\* "Add remaining properties": the entries whose name was not processed.
Remaining(longhands, processed) ==
    IF longhands = <<>> THEN <<>>
    ELSE (IF Head(longhands).name \in processed THEN <<>> ELSE <<Head(longhands)>>)
         \o Remaining(Tail(longhands), processed)

_optimize_to_shorthands(longhands, groups, boxNames) ==
    LET r == OptimizeLoop(groups, longhands, boxNames, <<>>, {})
    IN  r.result \o Remaining(longhands, r.processed)

(***************************************************************************)
(* property_merger_enhanced.py: EnhancedPropertyMerger                     *)
(***************************************************************************)
RECURSIVE Enhanced_ExpandLoop(_, _)
\* The for loop of EnhancedPropertyMerger._expand_all_properties: no name is
\* fixed and an exception of expand_shorthand is not caught.
Enhanced_ExpandLoop(properties, expanded) ==
    IF properties = <<>> THEN [raised |-> FALSE, expanded |-> expanded]
    ELSE LET prop == Head(properties)
         IN  IF is_shorthand(prop.name)
             THEN LET e == expand_shorthand(prop.name, prop.value)
                  IN  IF e.raised
                      THEN [raised |-> TRUE, expanded |-> expanded]
                      ELSE Enhanced_ExpandLoop(Tail(properties),
                               DictUpdate(expanded, InheritImportant(e.props, prop.important)))
             ELSE Enhanced_ExpandLoop(Tail(properties), DictSet(expanded, prop))

Enhanced_expand_all_properties(properties) == Enhanced_ExpandLoop(properties, <<>>)

\* EnhancedPropertyMerger._apply_important_strategy with self.important_strategy
Enhanced_apply_important_strategy(original, override, strategy) ==
    LET parsed == parse_value_with_important(override.value)
        has_important == parsed.important
        orig_important == original # None /\ original.important
        result == CSSProperty(override.name, parsed.clean, has_important)
    IN  CASE strategy = "match" /\ orig_important /\ ~has_important ->
                [prop |-> [result EXCEPT !.important = TRUE],
                 info |-> <<Msg("match_marked", override.name)>>, warnings |-> <<>>]
          [] strategy = "force" ->
                [prop |-> [result EXCEPT !.important = TRUE],
                 info |-> <<Msg("force_added", override.name)>>, warnings |-> <<>>]
          [] strategy = "strip" ->
                [prop |-> [result EXCEPT !.important = FALSE],
                 info |-> IF has_important \/ orig_important
                          THEN <<Msg("strip_removed", override.name)>> ELSE <<>>,
                 warnings |-> <<>>]
          [] strategy = "override" /\ orig_important /\ ~has_important ->
                [prop |-> result, info |-> <<>>,
                 warnings |-> <<Msg("override_may_not_apply", override.name)>>]
          [] OTHER -> [prop |-> result, info |-> <<>>, warnings |-> <<>>]

RECURSIVE Enhanced_MergeLoop(_, _, _, _, _)
\* The for loop of EnhancedPropertyMerger._merge_longhands.
Enhanced_MergeLoop(overrides, strategy, merged, info, warnings) ==
    IF overrides = <<>> THEN [merged |-> merged, info |-> info, warnings |-> warnings]
    ELSE LET override_prop == Head(overrides)
             original_prop == DictGet(merged, override_prop.name)
         IN  IF strategy = "respect" /\ original_prop # None /\ original_prop.important
             THEN Enhanced_MergeLoop(Tail(overrides), strategy, merged,
                      Append(info, Msg("respect_skip", override_prop.name)), warnings)
             ELSE LET r == Enhanced_apply_important_strategy(original_prop, override_prop, strategy)
                  IN  Enhanced_MergeLoop(Tail(overrides), strategy, DictSet(merged, r.prop),
                                         info \o r.info, warnings \o r.warnings)

Enhanced_merge_longhands(source_expanded, override_expanded, strategy) ==
    Enhanced_MergeLoop(override_expanded, strategy, StartFromSource(source_expanded), <<>>, <<>>)

RECURSIVE Enhanced_CombinedInfo(_, _)
\* The info messages f"Combined ... to {shorthand_name}" of
\* EnhancedPropertyMerger._optimize_to_shorthands, one per group combined.
Enhanced_CombinedInfo(groups, longhands) ==
    IF groups = <<>> THEN <<>>
    ELSE LET names == Head(groups).longhands
             values == [i \in DOMAIN names |-> DictGet(longhands, names[i]).value]
         IN  (IF /\ \A i \in DOMAIN names : DictHas(longhands, names[i])
                 /\ _try_combine_to_shorthand(values, Head(groups).shorthand, FullExpandBoxNames).truthy
                 /\ SameImportance(longhands, names)
              THEN <<Msg("combined", Head(groups).shorthand)>> ELSE <<>>)
             \o Enhanced_CombinedInfo(Tail(groups), longhands)

(***************************************************************************)
(* The merger as a state machine.                                          *)
(*   kind: which PropertyMerger was constructed: "full_expand"             *)
(*   (property_merger_full_expand.py) or the hybrid one with its           *)
(*   shorthand_strategy ("cascade", "smart", "expand").                    *)
(*   info_messages, warning_messages, important_strategy: instance fields. *)
(*   The other variables are the locals of one merge() call; pc is the     *)
(*   position of the call.                                                 *)
(***************************************************************************)
VARIABLES kind, important_strategy, pc, source, override, arg_strategy, strategy,
          expanded_source, expanded_override, merged_longhands, optimized_result,
          result, info_messages, warning_messages

varsMerge == <<kind, important_strategy, pc, source, override, arg_strategy, strategy,
               expanded_source, expanded_override, merged_longhands, optimized_result,
               result, info_messages, warning_messages>>

(***************************************************************************)
(* Recombination and expansion applied to each other's output              *)
(* (_try_combine_to_shorthand, ShorthandResolver.expand_shorthand):        *)
(*   rt_dir "combine_first": rt_input holds the longhand values of group   *)
(*   rt_group, which are combined and the combination expanded;            *)
(*   rt_dir "expand_first": rt_input is a shorthand value, which is        *)
(*   expanded, the longhands combined and the combination expanded again.  *)
(***************************************************************************)
VARIABLES rt_pc, rt_dir, rt_group, rt_input, rt_first, rt_combined, rt_expanded

varsRT == <<rt_pc, rt_dir, rt_group, rt_input, rt_first, rt_combined, rt_expanded>>

(***************************************************************************)
(* Two merge() calls running in two threads on one PropertyMerger          *)
(* instance (BatchProcessor.process_batch with a strategy's merger).       *)
(*   self_info, self_warn: the list objects self.info_messages and         *)
(*   self.warning_messages are bound to: 0 is the constructor's list, t    *)
(*   the list thread t created when it reset the field;                    *)
(*   heap_info, heap_warn: the contents of those list objects;             *)
(*   c_*: each thread's arguments, position, locals and returned triple.   *)
(***************************************************************************)
VARIABLES self_info, self_warn, heap_info, heap_warn,
          c_in, c_pc, c_strategy, c_expanded_source, c_expanded_override,
          c_merged, c_ret

varsConc == <<self_info, self_warn, heap_info, heap_warn,
              c_in, c_pc, c_strategy, c_expanded_source, c_expanded_override,
              c_merged, c_ret>>

\* One merge() call of a full-expand PropertyMerger over an object heap:
\* o_heap is the sequence of the CSSProperty objects that exist, a reference
\* is an index of it; o_input is what the objects of the two argument lists
\* held when the call was made.
VARIABLES o_pc, o_input, o_source, o_override, o_strategy, o_heap,
          o_expanded_source, o_expanded_override, o_merged, o_result

varsObj == <<o_pc, o_input, o_source, o_override, o_strategy, o_heap,
             o_expanded_source, o_expanded_override, o_merged, o_result>>

\* One call of an operation of the ConflictDetector, of the simple
\* PropertyMerger or of the HybridShorthandHandler: its name, its arguments
\* and what it returned; and the two tables of the ConflictDetector.
VARIABLES api_pc, api_op, api_in, api_out, cd_shorthand_map, cd_longhand_to_shorthands

varsApi == <<api_pc, api_op, api_in, api_out, cd_shorthand_map, cd_longhand_to_shorthands>>

vars == <<varsMerge, varsRT, varsConc, varsObj, varsApi>>

Kinds == {"full_expand", "cascade", "smart", "expand", "enhanced"}

\* The argument None (and the empty string, equally falsy in Python).
NoStrategy == ""

\* SMART_EXPAND_PROPERTIES and the names that start with 'margin-' / 'padding-'.
_should_smart_expand(property_name) ==
    property_name \in {"margin", "padding"} \cup shorthand_map["margin"] \cup shorthand_map["padding"]

RECURSIVE Filter(_, _)
\* The properties of a list that are (smart = TRUE) or are not smart-expanded.
Filter(properties, smart) ==
    IF properties = <<>> THEN <<>>
    ELSE (IF _should_smart_expand(Head(properties).name) = smart THEN <<Head(properties)>> ELSE <<>>)
         \o Filter(Tail(properties), smart)

\* What the expansion steps of this kind of merger work on.
ExpansionInput(properties) == IF kind = "smart" THEN Filter(properties, TRUE) ELSE properties

GroupsOf(k) == IF k = "full_expand" THEN FullExpandGroups ELSE HybridGroups
BoxNamesOf(k) == IF k = "full_expand" THEN FullExpandBoxNames ELSE HybridBoxNames

(***************************************************************************)
(* Inputs of merge(): families of (source, override, strategy).            *)
(***************************************************************************)
Scenario(src, ov, st) == [source |-> src, override |-> ov, strategy |-> st]

A == TokenList[1]
B == TokenList[2]
C == TokenList[3]

\* General family: lists over a pool of properties of the overflow group
\* and an uncatalogued name, of bounded total length.
Pool ==
    << CSSProperty("overflow", <<A>>, FALSE),
       CSSProperty("overflow", <<A, B>>, TRUE),
       CSSProperty("overflow", <<A, B, C>>, FALSE),
       CSSProperty("overflow-x", <<A>>, FALSE),
       CSSProperty("overflow-x", <<B>>, TRUE),
       CSSProperty("overflow-y", <<A>>, FALSE),
       CSSProperty("overflow-y", <<B, IMPORTANT>>, FALSE),
       CSSProperty("color", <<B>>, TRUE) >>

PoolSet == SeqToSet(Pool)

ListsOf(n) == [1..n -> PoolSet]

GeneralStrategies == ValidStrategies \cup {"bogus"}

ListsUpTo(n) == UNION {ListsOf(k) : k \in 0..n}

\* Every list of at most total pool properties, split at every position into
\* a source and an override.
General(total) ==
    {Scenario(SubSeq(l, 1, IF m < Len(l) THEN m ELSE Len(l)),
              SubSeq(l, (IF m < Len(l) THEN m ELSE Len(l)) + 1, Len(l)), st) :
        l \in ListsUpTo(total), m \in 0..total, st \in GeneralStrategies}

\* Token sequences of the given lengths over a set of tokens.
TokenSeqs(tokens, lengths) == UNION {[1..n -> tokens] : n \in lengths}

\* Sub-property family: one margin or padding shorthand of 1-4 tokens in the
\* source, one longhand of the same group in the override.
SubProperty ==
    {Scenario(<<CSSProperty(g, v, imp)>>, <<CSSProperty(BoxSideNames(g)[k], <<t>>, FALSE)>>, "match") :
        g \in {"margin", "padding"}, v \in TokenSeqs(ValueTokens, 1..4), imp \in BOOLEAN,
        k \in 1..4, t \in ValueTokens}

\* Group family: the source holds every longhand of one recombinable group,
\* each with one token or the empty value and its own important flag.
LonghandValues == {<<t>> : t \in ValueTokens} \cup {<<>>}

\* The list that holds the names of a group in their order, the i-th with
\* value vs[i] and important flag imps[i].
GroupList(names, vs, imps) ==
    IF Len(names) = 2
    THEN <<CSSProperty(names[1], vs[1], imps[1]), CSSProperty(names[2], vs[2], imps[2])>>
    ELSE <<CSSProperty(names[1], vs[1], imps[1]), CSSProperty(names[2], vs[2], imps[2]),
           CSSProperty(names[3], vs[3], imps[3]), CSSProperty(names[4], vs[4], imps[4])>>

WholeGroup ==
    {Scenario(GroupList(FullExpandGroups[g].longhands, vs, imps), <<>>, "match") :
        g \in DOMAIN FullExpandGroups,
        vs \in LonghandValues \X LonghandValues \X LonghandValues \X LonghandValues,
        imps \in BOOLEAN \X BOOLEAN \X BOOLEAN \X BOOLEAN}

\* Malformed family: at most one property on each side, among them values
\* with a token count outside the rule, the empty value and border-radius
\* values with one and with two '/'.
MalformedPool ==
    { CSSProperty("border-radius", <<A, SLASH, B, SLASH, C>>, FALSE),
      CSSProperty("border-radius", <<A, SLASH, B>>, FALSE),
      CSSProperty("border-radius", <<A, B>>, TRUE),
      CSSProperty("margin", <<>>, FALSE),
      CSSProperty("margin", <<A, B, C, A, B>>, FALSE),
      CSSProperty("margin-top", <<>>, FALSE) }

UpToOne(S) == {<<>>} \cup {<<p>> : p \in S}

MalformedFamily ==
    {Scenario(src, ov, st) :
        src \in UpToOne(MalformedPool), ov \in UpToOne(MalformedPool), st \in GeneralStrategies}

\* Passthrough family: at most one property on each side, of a name outside
\* the catalog or of a misordered border-side name.
PassthroughPool ==
    { CSSProperty("color", <<A>>, FALSE),
      CSSProperty("color", <<B>>, TRUE),
      CSSProperty("color", <<C, IMPORTANT>>, FALSE),
      CSSProperty("border-color-top", <<A>>, FALSE) }

PassthroughFamily ==
    {Scenario(src, ov, st) :
        src \in UpToOne(PassthroughPool), ov \in UpToOne(PassthroughPool), st \in GeneralStrategies}

\* Border family: a border shorthand of a width, a style keyword and a
\* colour name in the source, border-top-color in the override.
NamedColors == {"red", "blue", "lemonchiffon"}

BorderFamily ==
    {Scenario(<<CSSProperty("border", <<w, st, c>>, FALSE)>>,
              <<CSSProperty("border-top-color", <<x>>, FALSE)>>, "match") :
        w \in ValueTokens, st \in {"solid", "dashed"}, c \in NamedColors, x \in {"red", "blue"}}

\* Border override family: a border, per-side border or border longhand
\* property in the source, a border shorthand in the override that gives a
\* style alone, a width and a style, or a width, a style and a colour.
BorderOverrideFamily ==
    {Scenario(<<CSSProperty(n, v, FALSE)>>, <<CSSProperty("border", ov, FALSE)>>, "match") :
        n \in {"border", "border-top", "border-left", "border-top-color"},
        v \in {<<w, "dashed", "blue">> : w \in ValueTokens} \cup {<<"blue">>},
        ov \in {<<A, "solid", "red">>, <<A, "solid">>, <<"solid">>}}

\* Calc family: a margin or padding shorthand of one token in the source,
\* one longhand of the group in the override whose value has whitespace.
CALC == <<"calc(1px", "+", "2px)">>

CalcFamily ==
    {Scenario(<<CSSProperty(g, <<t>>, FALSE)>>, <<CSSProperty(BoxSideNames(g)[k], CALC, FALSE)>>, st) :
        g \in {"margin", "padding"}, t \in ValueTokens, k \in 1..4, st \in {"match", "override"}}

\* Default family: merge() called with the empty strategy name, at most one
\* property on each side.
DefaultFamily ==
    {Scenario(src, ov, NoStrategy) : src \in UpToOne(PoolSet), ov \in UpToOne(PoolSet)}

\* EnhancedPropertyMerger.merge(source, override) takes no strategy.
EnhancedFamily ==
    {Scenario(src, ov, NoStrategy) :
        src \in UpToOne(MalformedPool \cup PoolSet), ov \in UpToOne(MalformedPool \cup PoolSet)}

\* The families of inputs explored for a merger of this kind.
Scenarios ==
    CASE kind = "full_expand" -> <<General(MaxTotal), SubProperty, WholeGroup, MalformedFamily,
                                   PassthroughFamily, BorderFamily, DefaultFamily,
                                   BorderOverrideFamily, CalcFamily>>
      [] kind \in {"smart", "expand"} -> <<General(MaxTotal - 1), SubProperty, MalformedFamily,
                                           DefaultFamily>>
      [] kind = "enhanced" -> <<EnhancedFamily>>
      [] OTHER -> <<General(MaxTotal - 1), MalformedFamily, DefaultFamily>>

\* The inputs explored for the next call: any scenario on a fresh instance,
\* the short ones after a short call.
CallScenarios ==
    IF pc = "idle" THEN Scenarios
    ELSE IF Len(source) + Len(override) <= MaxRepeat THEN <<General(MaxRepeat)>>
    ELSE <<>>

(***************************************************************************)
(* Actions                                                                 *)
(***************************************************************************)
Threads == {1, 2}

RTOff ==
    /\ rt_pc = "off"
    /\ rt_dir = "off"
    /\ rt_group = 1
    /\ rt_input = <<>>
    /\ rt_first = Returned(<<>>)
    /\ rt_combined = NoCombination
    /\ rt_expanded = Returned(<<>>)

ConcOff ==
    /\ self_info = 0
    /\ self_warn = 0
    /\ heap_info = [i \in {0} \cup Threads |-> <<>>]
    /\ heap_warn = [i \in {0} \cup Threads |-> <<>>]
    /\ c_in = [t \in Threads |-> Scenario(<<>>, <<>>, NoStrategy)]
    /\ c_pc = [t \in Threads |-> "off"]
    /\ c_strategy = [t \in Threads |-> NoStrategy]
    /\ c_expanded_source = [t \in Threads |-> <<>>]
    /\ c_expanded_override = [t \in Threads |-> <<>>]
    /\ c_merged = [t \in Threads |-> <<>>]
    /\ c_ret = [t \in Threads |-> [props |-> <<>>, info |-> 0, warnings |-> 0]]

ObjOff ==
    /\ o_pc = "off"
    /\ o_input = <<>>
    /\ o_source = <<>>
    /\ o_override = <<>>
    /\ o_strategy = NoStrategy
    /\ o_heap = <<>>
    /\ o_expanded_source = <<>>
    /\ o_expanded_override = <<>>
    /\ o_merged = <<>>
    /\ o_result = <<>>

NoArgs == [name |-> "", value |-> <<>>, source |-> <<>>, override |-> <<>>]

NoOutput ==
    [flag |-> FALSE, names |-> {}, props |-> <<>>, info |-> <<>>, raised |-> FALSE,
     other |-> [raised |-> FALSE, props |-> <<>>]]

ApiOff ==
    /\ api_pc = "off"
    /\ api_op = ""
    /\ api_in = NoArgs
    /\ api_out = NoOutput
    /\ cd_shorthand_map = <<>>
    /\ cd_longhand_to_shorthands = <<>>

MergeOff ==
    /\ kind = "full_expand"
    /\ important_strategy = "match"
    /\ pc = "off"
    /\ source = <<>>
    /\ override = <<>>
    /\ arg_strategy = NoStrategy
    /\ strategy = NoStrategy
    /\ expanded_source = <<>>
    /\ expanded_override = <<>>
    /\ merged_longhands = <<>>
    /\ optimized_result = <<>>
    /\ result = <<>>
    /\ info_messages = <<>>
    /\ warning_messages = <<>>

Init ==
    /\ RTOff
    /\ ConcOff
    /\ ObjOff
    /\ ApiOff
    /\ kind \in Kinds
    /\ important_strategy \in (IF kind = "enhanced" THEN GeneralStrategies ELSE {"match"})
    /\ pc = "idle"
    /\ source = <<>>
    /\ override = <<>>
    /\ arg_strategy = NoStrategy
    /\ strategy = NoStrategy
    /\ expanded_source = <<>>
    /\ expanded_override = <<>>
    /\ merged_longhands = <<>>
    /\ optimized_result = <<>>
    /\ result = <<>>
    /\ info_messages = <<>>
    /\ warning_messages = <<>>

\* merge(), entry: reset the messages, choose and validate the strategy.
Call ==
    /\ pc \in {"idle", "done"}
    /\ kind # "enhanced"
    /\ \E f \in DOMAIN CallScenarios : \E sc \in CallScenarios[f] :
        LET st == IF sc.strategy # NoStrategy THEN sc.strategy ELSE important_strategy
        IN  /\ source' = sc.source
            /\ override' = sc.override
            /\ arg_strategy' = sc.strategy
            /\ info_messages' = <<>>
            /\ IF st \notin ValidStrategies
               THEN /\ warning_messages' = <<Msg("unknown_strategy", st)>>
                    /\ strategy' = "match"
               ELSE /\ warning_messages' = <<>>
                    /\ strategy' = st
    /\ expanded_source' = <<>>
    /\ expanded_override' = <<>>
    /\ merged_longhands' = <<>>
    /\ optimized_result' = <<>>
    /\ result' = <<>>
    /\ pc' = "called"
    /\ UNCHANGED <<varsRT, varsConc, varsObj, varsApi, kind, important_strategy>>

\* expanded_source = self._expand_all_properties(source)
ExpandSource ==
    /\ pc = "called"
    /\ kind \in {"full_expand", "smart", "expand"}
    /\ LET e == _expand_all_properties(ExpansionInput(source), kind = "full_expand")
       IN  /\ expanded_source' = e.expanded
           /\ warning_messages' = warning_messages \o e.warnings
    /\ pc' = "expanded_source"
    /\ UNCHANGED <<varsRT, varsConc, varsObj, varsApi, kind, important_strategy, source, override, arg_strategy, strategy,
                   expanded_override, merged_longhands, optimized_result, result, info_messages>>

\* expanded_override = self._expand_all_properties(override)
ExpandOverride ==
    /\ pc = "expanded_source"
    /\ LET e == _expand_all_properties(ExpansionInput(override), kind = "full_expand")
       IN  /\ expanded_override' = e.expanded
           /\ warning_messages' = warning_messages \o e.warnings
    /\ pc' = "expanded_override"
    /\ UNCHANGED <<varsRT, varsConc, varsObj, varsApi, kind, important_strategy, source, override, arg_strategy, strategy,
                   expanded_source, merged_longhands, optimized_result, result, info_messages>>

\* merged_longhands = self._merge_longhands(expanded_source, expanded_override, strategy)
MergeLonghands ==
    /\ pc = "expanded_override"
    /\ LET m == _merge_longhands(expanded_source, expanded_override, strategy)
       IN  /\ merged_longhands' = m.merged
           /\ info_messages' = info_messages \o m.info
           /\ warning_messages' = warning_messages \o m.warnings
    /\ pc' = "merged"
    /\ UNCHANGED <<varsRT, varsConc, varsObj, varsApi, kind, important_strategy, source, override, arg_strategy, strategy,
                   expanded_source, expanded_override, optimized_result, result>>

\* optimized_result = self._optimize_to_shorthands(merged_longhands), and the
\* return of the full-expand merger and of _merge_expand_mode.
OptimizeToShorthands ==
    /\ pc = "merged"
    /\ optimized_result' = _optimize_to_shorthands(merged_longhands, GroupsOf(kind), BoxNamesOf(kind))
    /\ IF kind = "smart"
       THEN pc' = "optimized" /\ result' = result
       ELSE pc' = "done" /\ result' = optimized_result'
    /\ UNCHANGED <<varsRT, varsConc, varsObj, varsApi, kind, important_strategy, source, override, arg_strategy, strategy,
                   expanded_source, expanded_override, merged_longhands,
                   info_messages, warning_messages>>

\* _merge_smart_mode, "Handle cascade properties simply" and the return.
SmartCascade ==
    /\ pc = "optimized"
    /\ kind = "smart"
    /\ LET m == MergeLoop(Filter(override, FALSE), strategy,
                          DictUpdate(<<>>, Filter(source, FALSE)), <<>>, <<>>)
       IN  /\ result' = optimized_result \o m.merged
           /\ info_messages' = info_messages \o m.info
           /\ warning_messages' = warning_messages \o m.warnings
    /\ pc' = "done"
    /\ UNCHANGED <<varsRT, varsConc, varsObj, varsApi, kind, important_strategy, source, override, arg_strategy, strategy,
                   expanded_source, expanded_override, merged_longhands, optimized_result>>

\* Mutant of _merge_cascade_mode: both lists are expanded first.
_merge_cascade_mode_Expanding(src, ov, st) ==
    MergeLoop(_expand_all_properties(ov, FALSE).expanded, st,
              _expand_all_properties(src, FALSE).expanded, <<>>, <<>>)

\* _merge_cascade_mode: the source properties by name, then the loop over
\* the override list.
_merge_cascade_mode(src, ov, st) == MergeLoop(ov, st, DictUpdate(<<>>, src), <<>>, <<>>)

\* merge() of a hybrid merger in cascade mode: return self._merge_cascade_mode(...)
MergeCascadeMode ==
    /\ pc = "called"
    /\ kind = "cascade"
    /\ LET m == _merge_cascade_mode(source, override, strategy)
       IN  /\ result' = m.merged
           /\ info_messages' = info_messages \o m.info
           /\ warning_messages' = warning_messages \o m.warnings
    /\ pc' = "done"
    /\ UNCHANGED <<varsRT, varsConc, varsObj, varsApi, kind, important_strategy, source, override, arg_strategy, strategy,
                   expanded_source, expanded_override, merged_longhands, optimized_result>>

\* EnhancedPropertyMerger.merge, entry: reset the messages.
EnhancedCall ==
    /\ pc = "idle"
    /\ kind = "enhanced"
    /\ \E f \in DOMAIN Scenarios : \E sc \in Scenarios[f] :
        /\ source' = sc.source
        /\ override' = sc.override
        /\ arg_strategy' = sc.strategy
    /\ strategy' = important_strategy
    /\ info_messages' = <<>>
    /\ warning_messages' = <<>>
    /\ pc' = "e_called"
    /\ UNCHANGED <<varsRT, varsConc, varsObj, varsApi, kind, important_strategy, expanded_source, expanded_override,
                   merged_longhands, optimized_result, result>>

\* expanded_source = self._expand_all_properties(source); an exception leaves merge()
EnhancedExpandSource ==
    /\ pc = "e_called"
    /\ LET e == Enhanced_expand_all_properties(source)
       IN  IF e.raised
           THEN pc' = "raised" /\ expanded_source' = expanded_source
           ELSE pc' = "e_expanded_source" /\ expanded_source' = e.expanded
    /\ UNCHANGED <<varsRT, varsConc, varsObj, varsApi, kind, important_strategy, source, override, arg_strategy, strategy,
                   expanded_override, merged_longhands, optimized_result, result,
                   info_messages, warning_messages>>

\* expanded_override = self._expand_all_properties(override)
EnhancedExpandOverride ==
    /\ pc = "e_expanded_source"
    /\ LET e == Enhanced_expand_all_properties(override)
       IN  IF e.raised
           THEN pc' = "raised" /\ expanded_override' = expanded_override
           ELSE pc' = "e_expanded_override" /\ expanded_override' = e.expanded
    /\ UNCHANGED <<varsRT, varsConc, varsObj, varsApi, kind, important_strategy, source, override, arg_strategy, strategy,
                   expanded_source, merged_longhands, optimized_result, result,
                   info_messages, warning_messages>>

\* merged_longhands = self._merge_longhands(expanded_source, expanded_override)
EnhancedMergeLonghands ==
    /\ pc = "e_expanded_override"
    /\ LET m == Enhanced_merge_longhands(expanded_source, expanded_override, strategy)
       IN  /\ merged_longhands' = m.merged
           /\ info_messages' = info_messages \o m.info
           /\ warning_messages' = warning_messages \o m.warnings
    /\ pc' = "e_merged"
    /\ UNCHANGED <<varsRT, varsConc, varsObj, varsApi, kind, important_strategy, source, override, arg_strategy, strategy,
                   expanded_source, expanded_override, optimized_result, result>>

\* optimized_result = self._optimize_to_shorthands(merged_longhands), and the return
EnhancedOptimize ==
    /\ pc = "e_merged"
    /\ optimized_result' = _optimize_to_shorthands(merged_longhands, FullExpandGroups, FullExpandBoxNames)
    /\ result' = optimized_result'
    /\ info_messages' = info_messages \o Enhanced_CombinedInfo(FullExpandGroups, merged_longhands)
    /\ pc' = "done"
    /\ UNCHANGED <<varsRT, varsConc, varsObj, varsApi, kind, important_strategy, source, override, arg_strategy, strategy,
                   expanded_source, expanded_override, merged_longhands, warning_messages>>

Next ==
    \/ Call
    \/ ExpandSource
    \/ ExpandOverride
    \/ MergeLonghands
    \/ OptimizeToShorthands
    \/ SmartCascade
    \/ MergeCascadeMode
    \/ EnhancedCall
    \/ EnhancedExpandSource
    \/ EnhancedExpandOverride
    \/ EnhancedMergeLonghands
    \/ EnhancedOptimize

Spec == Init /\ [][Next]_vars

(***************************************************************************)
(* Properties                                                              *)
(***************************************************************************)
Count(seq, x) == Cardinality({i \in DOMAIN seq : seq[i] = x})
NameCount(props, n) == Cardinality({i \in DOMAIN props : props[i].name = n})
ExpandKinds == {"full_expand", "smart", "expand"}
Merged == pc \in {"merged", "optimized", "done"} /\ kind \in ExpandKinds

\* The value the CSS box-model rule gives side i (1 top, 2 right, 3 bottom,
\* 4 left) for a shorthand value v of 1-4 tokens.
SideOf(v, i) ==
    CASE Len(v) = 1 -> v[1]
      [] Len(v) = 2 -> IF i \in {1, 3} THEN v[1] ELSE v[2]
      [] Len(v) = 3 -> IF i = 1 THEN v[1] ELSE IF i = 3 THEN v[3] ELSE v[2]
      [] Len(v) = 4 -> v[i]

IsSubPropertyCall ==
    /\ kind \in ExpandKinds
    /\ arg_strategy = "match"
    /\ Len(source) = 1 /\ Len(override) = 1
    /\ source[1].name \in {"margin", "padding"}
    /\ Len(source[1].value) \in 1..4
    /\ override[1].name \in shorthand_map[source[1].name]
    /\ Len(override[1].value) = 1
    /\ override[1].value[1] # IMPORTANT
    /\ ~override[1].important

\* C1: a margin/padding shorthand overridden by one longhand of its group
\* under 'match' gives exactly one property, the group shorthand, whose
\* box-model sides are the override's value on the overridden side and the
\* source's values on the other three.
C1_SubPropertyOverride ==
    (pc = "done" /\ IsSubPropertyCall) =>
        /\ Len(result) = 1
        /\ result[1].name = source[1].name
        /\ Len(result[1].value) \in 1..4
        /\ \A i \in 1..4 :
              SideOf(result[1].value, i) =
                  IF BoxSideNames(source[1].name)[i] = override[1].name
                  THEN override[1].value[1]
                  ELSE SideOf(source[1].value, i)

\* C1 witness: a 3-token margin whose left side is overridden, in smart mode.
C1_Witness ==
    /\ pc = "done" /\ IsSubPropertyCall /\ kind = "smart"
    /\ Len(source[1].value) = 3
    /\ override[1].name = "margin-left"
    /\ override[1].value[1] # source[1].value[2]
    /\ Len(result) = 1 /\ Len(result[1].value) = 4

\* A recombined shorthand of group g is in the result: a property of that
\* name which the merged map did not hold.
Recombined(g) ==
    NameCount(result, g.shorthand) > 0 /\ ~DictHas(merged_longhands, g.shorthand)

\* C2: the result of the full-expand merge holds at most one property per
\* name, and no longhand of a group next to the group's recombined shorthand.
C2_ResultUnique ==
    (pc = "done" /\ kind = "full_expand") =>
        /\ \A i, j \in DOMAIN result : result[i].name = result[j].name => i = j
        /\ \A g \in DOMAIN FullExpandGroups :
              Recombined(FullExpandGroups[g]) =>
                  \A k \in DOMAIN FullExpandGroups[g].longhands :
                      NameCount(result, FullExpandGroups[g].longhands[k]) = 0

\* C3: under 'match' and 'override' every entry of the expanded override
\* whose important flag is set (directly or inherited from its shorthand) is
\* important in the merged map.
C3_OverrideImportantWins ==
    (Merged /\ kind = "full_expand" /\ arg_strategy \in {"match", "override"}) =>
        \A i \in DOMAIN expanded_override :
            expanded_override[i].important =>
                DictGet(merged_longhands, expanded_override[i].name).important

DistinctNames(props) == \A i, j \in DOMAIN props : props[i].name = props[j].name => i = j

\* C4 as stated: merge(S, [], 'match') returns (S, [], []) for every S with
\* distinct names.
C4_NoOpOverride_Original ==
    (pc = "done" /\ kind = "full_expand" /\ arg_strategy = "match"
        /\ override = <<>> /\ DistinctNames(source)) =>
        /\ result = source
        /\ info_messages = <<>>
        /\ warning_messages = <<>>

\* S holds no catalogued shorthand, no misordered border-side name and not
\* every longhand of a recombinable group.
NothingToRewrite(props) ==
    /\ \A i \in DOMAIN props :
          ~is_shorthand(props[i].name) /\ _fix_property_name(props[i].name) = props[i].name
    /\ \A g \in DOMAIN FullExpandGroups :
          \E k \in DOMAIN FullExpandGroups[g].longhands :
              NameCount(props, FullExpandGroups[g].longhands[k]) = 0

\* C4 amended: merge(S, [], 'match') returns (S, [], []) for every S with
\* distinct names that holds no shorthand of the catalog, no misordered
\* border-side name and not all longhands of a recombinable group.
C4_NoOpOverride ==
    (pc = "done" /\ kind = "full_expand" /\ arg_strategy = "match"
        /\ override = <<>> /\ DistinctNames(source) /\ NothingToRewrite(source)) =>
        /\ result = source
        /\ info_messages = <<>>
        /\ warning_messages = <<>>

\* C4 witness: two source properties, one of them a longhand, returned as is.
C4_Witness ==
    /\ pc = "done" /\ kind = "full_expand" /\ arg_strategy = "match"
    /\ override = <<>> /\ DistinctNames(source) /\ NothingToRewrite(source)
    /\ Len(source) = 2
    /\ source[1].name = "color" /\ source[2].name = "overflow-y"
    /\ result = source

\* The shortest CSS notation of a shorthand value v of group g.
ShortestOf(g, v) ==
    IF Len(g.longhands) = 2
    THEN IF Len(v) = 2 /\ v[1] = v[2] THEN <<v[1]>> ELSE v
    ELSE LET a == SideOf(v, 1)
             b == SideOf(v, 2)
             c == SideOf(v, 3)
             d == SideOf(v, 4)
         IN  IF a = b /\ b = c /\ c = d THEN <<a>>
             ELSE IF a = c /\ b = d THEN <<a, b>>
             ELSE IF b = d THEN <<a, b, c>>
             ELSE <<a, b, c, d>>

GroupNames(g) == {g.shorthand} \cup SeqToSet(g.longhands)

\* The override holds a well-formed shorthand of g at position i, and no
\* other property of the group.
OverridesWholeGroup(g, i) ==
    /\ override[i].name = g.shorthand
    /\ Len(override[i].value) \in 1..Len(g.longhands)
    /\ SlashCount(override[i].value) = 0
    /\ \A j \in DOMAIN override : override[j].name \in GroupNames(g) => j = i

\* C5: under 'match' with no important source property, a well-formed
\* override shorthand of a recombinable group alone determines the group in
\* the result: one shorthand in shortest notation, nothing from the source.
C5_FullShorthandOverwrite ==
    (pc = "done" /\ kind = "full_expand" /\ arg_strategy = "match"
        /\ \A i \in DOMAIN source : ~source[i].important) =>
        \A g \in DOMAIN FullExpandGroups : \A i \in DOMAIN override :
            OverridesWholeGroup(FullExpandGroups[g], i) =>
                /\ NameCount(result, FullExpandGroups[g].shorthand) = 1
                /\ \A r \in DOMAIN result :
                      /\ result[r].name = FullExpandGroups[g].shorthand =>
                            result[r].value = ShortestOf(FullExpandGroups[g], override[i].value)
                      /\ result[r].name \notin SeqToSet(FullExpandGroups[g].longhands)

\* C6: under 'respect', a name of the expanded override whose source entry
\* is important keeps the source's property, with one info message for the
\* name and no resolver warning; every other name of the expanded override
\* gets the override's value.
C6_RespectSkip ==
    (Merged /\ arg_strategy = "respect") =>
        /\ \A w \in DOMAIN warning_messages : warning_messages[w][1] = "could_not_expand"
        /\ \A i \in DOMAIN expanded_override :
              LET ov == expanded_override[i]
                  src == DictGet(expanded_source, ov.name)
              IN  IF DictHas(expanded_source, ov.name) /\ src.important
                  THEN /\ DictGet(merged_longhands, ov.name) = src
                       /\ Count(info_messages, Msg("respect_skip", ov.name)) = 1
                  ELSE /\ DictGet(merged_longhands, ov.name).value =
                              parse_value_with_important(ov.value).clean
                       /\ Count(info_messages, Msg("respect_skip", ov.name)) = 0

\* C6 witness: one name skipped and another overridden in the same call.
C6_Witness ==
    /\ Merged /\ arg_strategy = "respect" /\ kind = "full_expand"
    /\ \E i, j \in DOMAIN expanded_override :
          /\ DictHas(expanded_source, expanded_override[i].name)
          /\ DictGet(expanded_source, expanded_override[i].name).important
          /\ DictGet(expanded_source, expanded_override[i].name).value # expanded_override[i].value
          /\ DictHas(expanded_source, expanded_override[j].name)
          /\ ~DictGet(expanded_source, expanded_override[j].name).important
          /\ DictGet(merged_longhands, expanded_override[j].name).value
                 # DictGet(expanded_source, expanded_override[j].name).value
    /\ Len(info_messages) = 1

\* C7: under 'match', for a name in both expanded maps: when the source
\* entry is important and the override value carries no !important, the
\* merged entry has the override's value, is important, and one info message
\* is recorded for it; when the source entry is not important the merged
\* entry has the override's value and no info message is recorded.
C7_MatchPropagation ==
    (Merged /\ arg_strategy = "match") =>
        \A i \in DOMAIN expanded_override :
            LET ov == expanded_override[i]
                src == DictGet(expanded_source, ov.name)
                m == DictGet(merged_longhands, ov.name)
                parsed == parse_value_with_important(ov.value)
            IN  DictHas(expanded_source, ov.name) =>
                    /\ (src.important /\ ~parsed.important) =>
                          /\ m.value = ov.value
                          /\ m.important
                          /\ Count(info_messages, Msg("match_marked", ov.name)) = 1
                    /\ ~src.important =>
                          /\ m.value = parsed.clean
                          /\ Count(info_messages, Msg("match_marked", ov.name)) = 0

\* C7 witness: an important source entry overridden by a plain value.
C7_Witness ==
    /\ Merged /\ arg_strategy = "match" /\ kind = "full_expand"
    /\ \E i \in DOMAIN expanded_override :
          /\ DictHas(expanded_source, expanded_override[i].name)
          /\ DictGet(expanded_source, expanded_override[i].name).important
          /\ ~expanded_override[i].important
          /\ ~parse_value_with_important(expanded_override[i].value).important
          /\ DictGet(expanded_source, expanded_override[i].name).value # expanded_override[i].value
          /\ DictGet(merged_longhands, expanded_override[i].name).important
    /\ Len(info_messages) = 1

\* How many properties named like g's shorthand the result takes over from
\* the merged map (an unexpanded shorthand passes through).
PassedThrough(g) == IF DictHas(merged_longhands, g.shorthand) THEN 1 ELSE 0

AllIn(g, d) == \A k \in DOMAIN g.longhands : DictHas(d, g.longhands[k])

Mixed(g, d) ==
    /\ \E k \in DOMAIN g.longhands : DictGet(d, g.longhands[k]).important
    /\ \E k \in DOMAIN g.longhands : ~DictGet(d, g.longhands[k]).important

\* The first property of that name in a list.
FirstNamed(props, n) ==
    props[CHOOSE i \in DOMAIN props :
            props[i].name = n /\ \A j \in 1..(i - 1) : props[j].name # n]

RTTokens == ValueTokens \cup {SLASHCALC}

RTGroup == FullExpandGroups[rt_group]

InitRT ==
    /\ MergeOff
    /\ ConcOff
    /\ ObjOff
    /\ ApiOff
    /\ rt_pc = "start"
    /\ \E g \in DOMAIN FullExpandGroups, d \in {"combine_first", "expand_first"} :
          /\ rt_group = g
          /\ rt_dir = d
          /\ rt_input \in IF d = "combine_first"
                          THEN [DOMAIN FullExpandGroups[g].longhands -> RTTokens]
                          ELSE TokenSeqs(RTTokens, DOMAIN FullExpandGroups[g].longhands)
    /\ rt_first = Returned(<<>>)
    /\ rt_combined = NoCombination
    /\ rt_expanded = Returned(<<>>)

\* expand_shorthand(shorthand, value) on a shorthand value
RT_ExpandInput ==
    /\ rt_pc = "start"
    /\ rt_dir = "expand_first"
    /\ rt_first' = expand_shorthand(RTGroup.shorthand, rt_input)
    /\ rt_pc' = "input_expanded"
    /\ UNCHANGED <<varsMerge, varsConc, varsObj, varsApi, rt_dir, rt_group, rt_input, rt_combined, rt_expanded>>

\* _try_combine_to_shorthand on the longhand values of the group
RT_Combine ==
    /\ \/ rt_pc = "start" /\ rt_dir = "combine_first"
       \/ /\ rt_pc = "input_expanded"
          /\ ~rt_first.raised
          /\ Len(rt_first.props) = Len(RTGroup.longhands)
    /\ LET values == IF rt_dir = "combine_first"
                     THEN [i \in DOMAIN rt_input |-> <<rt_input[i]>>]
                     ELSE [i \in DOMAIN rt_first.props |-> rt_first.props[i].value]
       IN  rt_combined' = _try_combine_to_shorthand(values, RTGroup.shorthand, FullExpandBoxNames)
    /\ rt_pc' = "combined"
    /\ UNCHANGED <<varsMerge, varsConc, varsObj, varsApi, rt_dir, rt_group, rt_input, rt_first, rt_expanded>>

\* expand_shorthand on the combined value
RT_ExpandCombined ==
    /\ rt_pc = "combined"
    /\ rt_combined.truthy
    /\ rt_expanded' = expand_shorthand(RTGroup.shorthand, rt_combined.value)
    /\ rt_pc' = "expanded"
    /\ UNCHANGED <<varsMerge, varsConc, varsObj, varsApi, rt_dir, rt_group, rt_input, rt_first, rt_combined>>

NextRT == RT_ExpandInput \/ RT_Combine \/ RT_ExpandCombined

SpecRoundTrip == InitRT /\ [][NextRT]_vars

\* 1 token iff all equal, 2 iff the opposite pairs are equal (not all
\* equal), 3 iff only the second and fourth are equal, 4 otherwise; for two
\* axes 1 token iff both are equal.
ShortestCount(vals, n) ==
    IF Len(vals) = 2
    THEN (n = 1 <=> vals[1] = vals[2]) /\ (n = 2 <=> vals[1] # vals[2])
    ELSE LET allEqual == vals[1] = vals[2] /\ vals[2] = vals[3] /\ vals[3] = vals[4]
         IN  /\ n = 1 <=> allEqual
             /\ n = 2 <=> (vals[1] = vals[3] /\ vals[2] = vals[4] /\ ~allEqual)
             /\ n = 3 <=> (vals[2] = vals[4] /\ vals[1] # vals[3])
             /\ n = 4 <=> vals[2] # vals[4]

\* The property list that holds value vals[i] under the i-th longhand name.
LonghandsWith(g, vals) == [i \in DOMAIN g.longhands |-> CSSProperty(g.longhands[i], <<vals[i]>>, FALSE)]

\* Recombination gives the shortest notation and expands back to the same
\* longhands; slashed says whether this is also claimed of border-radius
\* values that contain '/'.
RecombineInverse(slashed) ==
    /\ (rt_dir = "combine_first" /\ rt_pc \in {"combined", "expanded"}) =>
          /\ rt_combined.some
          /\ ShortestCount(rt_input, Len(rt_combined.value))
    /\ (rt_dir = "combine_first" /\ rt_pc = "combined") => rt_combined.truthy
    /\ (rt_dir = "combine_first" /\ rt_pc = "expanded"
            /\ (slashed \/ RTGroup.shorthand # "border-radius" \/ SlashCount(rt_input) = 0)) =>
          rt_expanded = Returned(LonghandsWith(RTGroup, rt_input))
    /\ (rt_dir = "expand_first" /\ rt_pc = "expanded") =>
          /\ rt_expanded = rt_first
          /\ Len(rt_input) = 1 => rt_combined.value = rt_input

\* C9 as stated: for four (two) single-token longhand values of any of the
\* eight groups, _try_combine_to_shorthand returns the shortest notation and
\* expand_shorthand of it gives back the same longhand values.
C9_RecombineInverse_Original == RecombineInverse(TRUE)

\* C9 amended: the same, for border-radius only when no value contains '/'.
C9_RecombineInverse == RecombineInverse(FALSE)

\* C9 witness: three-value notation of border-radius corners, expanded back.
C9_Witness ==
    /\ rt_pc = "expanded" /\ rt_dir = "combine_first"
    /\ RTGroup.shorthand = "border-radius"
    /\ SlashCount(rt_input) = 0
    /\ Len(rt_combined.value) = 3
    /\ rt_expanded = Returned(LonghandsWith(RTGroup, rt_input))

(***************************************************************************)
(* Two concurrent merge() calls on one full-expand PropertyMerger          *)
(***************************************************************************)
ConcScenarios ==
    {Scenario(<<CSSProperty("color", <<B>>, TRUE)>>, <<CSSProperty("color", <<A>>, FALSE)>>, st) :
        st \in {"match", "respect", "override", "bogus"}}
    \cup {Scenario(<<>>, <<CSSProperty("color", <<A>>, FALSE)>>, "force")}

InitConc ==
    /\ MergeOff
    /\ RTOff
    /\ ObjOff
    /\ ApiOff
    /\ self_info = 0
    /\ self_warn = 0
    /\ heap_info = [i \in {0} \cup Threads |-> <<>>]
    /\ heap_warn = [i \in {0} \cup Threads |-> <<>>]
    /\ c_in \in [Threads -> ConcScenarios]
    /\ c_pc = [t \in Threads |-> "start"]
    /\ c_strategy = [t \in Threads |-> NoStrategy]
    /\ c_expanded_source = [t \in Threads |-> <<>>]
    /\ c_expanded_override = [t \in Threads |-> <<>>]
    /\ c_merged = [t \in Threads |-> <<>>]
    /\ c_ret = [t \in Threads |-> [props |-> <<>>, info |-> 0, warnings |-> 0]]

\* self.info_messages.clear() in place of a new list
T_ResetInfo_ClearInPlace(t) ==
    /\ c_pc[t] = "start"
    /\ heap_info' = [heap_info EXCEPT ![self_info] = <<>>]
    /\ self_info' = self_info
    /\ c_pc' = [c_pc EXCEPT ![t] = "reset_info"]
    /\ UNCHANGED <<varsMerge, varsRT, varsObj, varsApi, self_warn, heap_warn, c_in, c_strategy,
                   c_expanded_source, c_expanded_override, c_merged, c_ret>>

\* self.info_messages = []
T_ResetInfo(t) ==
    /\ c_pc[t] = "start"
    /\ heap_info' = [heap_info EXCEPT ![t] = <<>>]
    /\ self_info' = t
    /\ c_pc' = [c_pc EXCEPT ![t] = "reset_info"]
    /\ UNCHANGED <<varsMerge, varsRT, varsObj, varsApi, self_warn, heap_warn, c_in, c_strategy,
                   c_expanded_source, c_expanded_override, c_merged, c_ret>>

\* self.warning_messages = []
T_ResetWarnings(t) ==
    /\ c_pc[t] = "reset_info"
    /\ heap_warn' = [heap_warn EXCEPT ![t] = <<>>]
    /\ self_warn' = t
    /\ c_pc' = [c_pc EXCEPT ![t] = "reset_warnings"]
    /\ UNCHANGED <<varsMerge, varsRT, varsObj, varsApi, self_info, heap_info, c_in, c_strategy,
                   c_expanded_source, c_expanded_override, c_merged, c_ret>>

\* strategy = important_strategy or self.important_strategy, and its validation
T_Validate(t) ==
    /\ c_pc[t] = "reset_warnings"
    /\ LET st == IF c_in[t].strategy # NoStrategy THEN c_in[t].strategy ELSE important_strategy
       IN  IF st \notin ValidStrategies
           THEN /\ heap_warn' = [heap_warn EXCEPT
                                    ![self_warn] = Append(@, Msg("unknown_strategy", st))]
                /\ c_strategy' = [c_strategy EXCEPT ![t] = "match"]
           ELSE /\ heap_warn' = heap_warn
                /\ c_strategy' = [c_strategy EXCEPT ![t] = st]
    /\ c_pc' = [c_pc EXCEPT ![t] = "validated"]
    /\ UNCHANGED <<varsMerge, varsRT, varsObj, varsApi, self_info, self_warn, heap_info, c_in,
                   c_expanded_source, c_expanded_override, c_merged, c_ret>>

T_ExpandSource(t) ==
    /\ c_pc[t] = "validated"
    /\ LET e == _expand_all_properties(c_in[t].source, TRUE)
       IN  /\ c_expanded_source' = [c_expanded_source EXCEPT ![t] = e.expanded]
           /\ heap_warn' = [heap_warn EXCEPT ![self_warn] = @ \o e.warnings]
    /\ c_pc' = [c_pc EXCEPT ![t] = "expanded_source"]
    /\ UNCHANGED <<varsMerge, varsRT, varsObj, varsApi, self_info, self_warn, heap_info, c_in, c_strategy,
                   c_expanded_override, c_merged, c_ret>>

T_ExpandOverride(t) ==
    /\ c_pc[t] = "expanded_source"
    /\ LET e == _expand_all_properties(c_in[t].override, TRUE)
       IN  /\ c_expanded_override' = [c_expanded_override EXCEPT ![t] = e.expanded]
           /\ heap_warn' = [heap_warn EXCEPT ![self_warn] = @ \o e.warnings]
    /\ c_pc' = [c_pc EXCEPT ![t] = "expanded_override"]
    /\ UNCHANGED <<varsMerge, varsRT, varsObj, varsApi, self_info, self_warn, heap_info, c_in, c_strategy,
                   c_expanded_source, c_merged, c_ret>>

\* _merge_longhands: its messages go to the lists the fields are bound to now
T_MergeLonghands(t) ==
    /\ c_pc[t] = "expanded_override"
    /\ LET m == _merge_longhands(c_expanded_source[t], c_expanded_override[t], c_strategy[t])
       IN  /\ c_merged' = [c_merged EXCEPT ![t] = m.merged]
           /\ heap_info' = [heap_info EXCEPT ![self_info] = @ \o m.info]
           /\ heap_warn' = [heap_warn EXCEPT ![self_warn] = @ \o m.warnings]
    /\ c_pc' = [c_pc EXCEPT ![t] = "merged"]
    /\ UNCHANGED <<varsMerge, varsRT, varsObj, varsApi, self_info, self_warn, c_in, c_strategy,
                   c_expanded_source, c_expanded_override, c_ret>>

\* _optimize_to_shorthands and
\* return optimized_result, self.info_messages, self.warning_messages
T_OptimizeAndReturn(t) ==
    /\ c_pc[t] = "merged"
    /\ c_ret' = [c_ret EXCEPT ![t] =
                    [props |-> _optimize_to_shorthands(c_merged[t], FullExpandGroups, FullExpandBoxNames),
                     info |-> self_info, warnings |-> self_warn]]
    /\ c_pc' = [c_pc EXCEPT ![t] = "returned"]
    /\ UNCHANGED <<varsMerge, varsRT, varsObj, varsApi, self_info, self_warn, heap_info, heap_warn, c_in,
                   c_strategy, c_expanded_source, c_expanded_override, c_merged>>

NextConc ==
    \/ \E t \in Threads : T_ResetInfo(t)
    \/ \E t \in Threads : T_ResetWarnings(t)
    \/ \E t \in Threads : T_Validate(t)
    \/ \E t \in Threads : T_ExpandSource(t)
    \/ \E t \in Threads : T_ExpandOverride(t)
    \/ \E t \in Threads : T_MergeLonghands(t)
    \/ \E t \in Threads : T_OptimizeAndReturn(t)

SpecConc == InitConc /\ [][NextConc]_vars

\* The messages one call produces from its own arguments.
OwnMessages(sc) ==
    LET st0 == IF sc.strategy # NoStrategy THEN sc.strategy ELSE important_strategy
        st == IF st0 \in ValidStrategies THEN st0 ELSE "match"
        es == _expand_all_properties(sc.source, TRUE)
        eo == _expand_all_properties(sc.override, TRUE)
        m == _merge_longhands(es.expanded, eo.expanded, st)
    IN  [info |-> m.info,
         warnings |-> (IF st0 \in ValidStrategies THEN <<>> ELSE <<Msg("unknown_strategy", st0)>>)
                      \o es.warnings \o eo.warnings \o m.warnings]

\* C10: when both concurrent calls have returned, the info and warning lists
\* each call returned hold exactly the messages of that call's own arguments.
C10_ConcurrentIndependent ==
    (\A t \in Threads : c_pc[t] = "returned") =>
        \A t \in Threads :
            /\ heap_info[c_ret[t].info] = OwnMessages(c_in[t]).info
            /\ heap_warn[c_ret[t].warnings] = OwnMessages(c_in[t]).warnings

(***************************************************************************)
(* Malformed values, foreign names, border, strategies                     *)
(***************************************************************************)
\* The token count of a shorthand value is outside the rule of its name:
\* 1-4 tokens for the box-model and corner-radius rules, 1-2 for two axes.
Malformed(p) ==
    /\ SlashCount(p.value) = 0
    /\ \/ /\ p.name \in FullExpandBoxNames \cup {"border-radius"}
          /\ Len(p.value) \notin 1..4
       \/ /\ p.name \in {"overflow", "gap", "place-content", "place-items", "place-self"}
          /\ Len(p.value) \notin 1..2

Inputs == source \o override

\* C11: when a shorthand of the source or the override has a token count
\* outside its rule, the result of the call holds a property of that name
\* and the returned warnings hold a warning for that name.
C11_MalformedShorthand ==
    (pc = "done" /\ kind \in {"full_expand", "expand"}) =>
        \A i \in DOMAIN Inputs :
            Malformed(Inputs[i]) =>
                /\ NameCount(result, Inputs[i].name) >= 1
                /\ \E w \in DOMAIN warning_messages : warning_messages[w][2] = Inputs[i].name

\* C12: merge() of the full-expand, the hybrid and the enhanced merger
\* never leaves through an exception: every call that was entered returns.
C12_NeverRaises == pc # "raised"

\* The name is a shorthand or a longhand of the Conflict Catalog.
Catalogued(n) == is_shorthand(n) \/ \E sh \in DOMAIN shorthand_map : n \in shorthand_map[sh]

\* A value without its trailing !important annotation.
WithoutAnnotation(v) ==
    IF v # <<>> /\ v[Len(v)] = IMPORTANT THEN SubSeq(v, 1, Len(v) - 1) ELSE v

\* The last property of that name in a list.
LastNamed(props, n) ==
    props[CHOOSE i \in DOMAIN props :
            props[i].name = n /\ \A j \in (i + 1)..Len(props) : props[j].name # n]

\* The value an uncatalogued name n of the inputs has after the merge: the
\* override's, without annotation, unless the name is only in the source or
\* 'respect' keeps an important source property.
PassthroughValue(n) ==
    IF NameCount(override, n) = 0 THEN LastNamed(source, n).value
    ELSE IF strategy = "respect" /\ NameCount(source, n) > 0 /\ LastNamed(source, n).important
         THEN LastNamed(source, n).value
         ELSE WithoutAnnotation(LastNamed(override, n).value)

\* The result holds exactly one property named n, with the passthrough value.
PassesThrough(n) ==
    /\ NameCount(result, n) = 1
    /\ FirstNamed(result, n).value = PassthroughValue(n)

IsBorderCall ==
    /\ kind = "full_expand" /\ arg_strategy = "match"
    /\ Len(source) = 1 /\ Len(override) = 1
    /\ source[1].name = "border" /\ ~source[1].important
    /\ Len(source[1].value) = 3
    /\ source[1].value[1] \in ValueTokens
    /\ source[1].value[2] \in BorderStyles
    /\ source[1].value[3] \in NamedColors
    /\ override[1].name = "border-top-color" /\ ~override[1].important
    /\ Len(override[1].value) = 1 /\ override[1].value[1] \in NamedColors

\* C14: for source {border: 'W S C'} and override {border-top-color: X} under
\* 'match', the merged map holds W for the four widths, S for the four
\* styles, X for the top colour and C for the other three colours, and the
\* result is border-width W, border-style S and border-color in shortest
\* notation.
C14_BorderSubProperty ==
    (pc = "done" /\ IsBorderCall) =>
        LET W == source[1].value[1]
            S == source[1].value[2]
            Cc == source[1].value[3]
            X == override[1].value[1]
        IN  /\ \A k \in 1..4 :
                  /\ DictGet(merged_longhands, BoxSideNames("border-width")[k]).value = <<W>>
                  /\ DictGet(merged_longhands, BoxSideNames("border-style")[k]).value = <<S>>
                  /\ DictGet(merged_longhands, BoxSideNames("border-color")[k]).value =
                         IF k = 1 THEN <<X>> ELSE <<Cc>>
            /\ result = << CSSProperty("border-width", <<W>>, FALSE),
                           CSSProperty("border-style", <<S>>, FALSE),
                           CSSProperty("border-color", IF X = Cc THEN <<X>> ELSE <<X, Cc, Cc>>, FALSE) >>

\* Every longhand of g is in d with a single-token value, all of the same
\* importance.
Recombinable(g, d) ==
    /\ AllIn(g, d)
    /\ \A k \in DOMAIN g.longhands : Len(DictGet(d, g.longhands[k]).value) = 1
    /\ ~Mixed(g, d)

NeverSynthesized == {"border", "font", "animation", "transition", "background"}

\* C15: in the full-expand merger and in the hybrid merger's 'expand' mode a
\* merged map that holds all longhands of one of the eight groups, with
\* single-token values and uniform importance, gives a recombined shorthand
\* of that group in the result; a property named border, font, animation,
\* transition or background is in the result only when the merged map holds
\* it.
C15_RecombinableGroups ==
    (pc = "done" /\ kind \in {"full_expand", "expand"}) =>
        /\ \A gi \in DOMAIN FullExpandGroups :
              Recombinable(FullExpandGroups[gi], merged_longhands) =>
                  NameCount(result, FullExpandGroups[gi].shorthand)
                      = PassedThrough(FullExpandGroups[gi]) + 1
        /\ \A n \in NeverSynthesized :
              NameCount(result, n) = IF DictHas(merged_longhands, n) THEN 1 ELSE 0

\* The messages of the merge step (not of the expansion) that name n.
MergeMessages(n) ==
    Cardinality({i \in DOMAIN info_messages : info_messages[i][2] = n})
    + Cardinality({i \in DOMAIN warning_messages :
                      warning_messages[i][2] = n /\ warning_messages[i][1] # "could_not_expand"})

\* C16: under each of the five strategies a name of the expanded override
\* that the expanded source does not hold is in the merged map with the
\* override's own value and importance, and no message is recorded for it.
C16_OverrideOnlyPassThrough ==
    (Merged /\ arg_strategy \in ValidStrategies) =>
        \A i \in DOMAIN expanded_override :
            ~DictHas(expanded_source, expanded_override[i].name) =>
                /\ DictGet(merged_longhands, expanded_override[i].name) = expanded_override[i]
                /\ MergeMessages(expanded_override[i].name) = 0

\* C17: under every strategy a name of the expanded source that the expanded
\* override does not hold is in the merged map with the source's value and
\* importance, and the merge step records no message for it.
C17_SourceOnlyUntouched ==
    Merged =>
        \A i \in DOMAIN expanded_source :
            ~DictHas(expanded_override, expanded_source[i].name) =>
                /\ DictGet(merged_longhands, expanded_source[i].name) = expanded_source[i]
                /\ MergeMessages(expanded_source[i].name) = 0

\* C17 witness: under 'force' a source-only entry stays not important while
\* an overridden name is made important.
C17_Witness ==
    /\ Merged /\ kind = "full_expand" /\ arg_strategy = "force"
    /\ \E i \in DOMAIN expanded_source, j \in DOMAIN expanded_override :
          /\ ~DictHas(expanded_override, expanded_source[i].name)
          /\ ~expanded_source[i].important
          /\ DictGet(merged_longhands, expanded_source[i].name) = expanded_source[i]
          /\ ~parse_value_with_important(expanded_override[j].value).important
          /\ DictGet(merged_longhands, expanded_override[j].name).important
          /\ Count(info_messages, Msg("force_added", expanded_override[j].name)) = 1

\* C18: under 'strip' every merged entry whose name is in the expanded
\* override is not important, and an info message is recorded for the name
\* whenever the source entry or the override was important.
C18_Strip ==
    (Merged /\ arg_strategy = "strip") =>
        \A i \in DOMAIN expanded_override :
            LET ov == expanded_override[i]
            IN  /\ ~DictGet(merged_longhands, ov.name).important
                /\ (\/ ov.important
                    \/ WithoutAnnotation(ov.value) # ov.value
                    \/ DictGet(expanded_source, ov.name).important) =>
                       Count(info_messages, Msg("strip_removed", ov.name)) >= 1

\* C19: under 'force' every merged entry whose name is in the expanded
\* override is important, and an info message is recorded for the name
\* exactly when the override did not itself request importance, by its flag
\* or by an annotation of its value.
C19_Force ==
    (Merged /\ arg_strategy = "force") =>
        \A i \in DOMAIN expanded_override :
            LET ov == expanded_override[i]
            IN  /\ DictGet(merged_longhands, ov.name).important
                /\ Count(info_messages, Msg("force_added", ov.name)) >= 1
                       <=> ~(ov.important \/ WithoutAnnotation(ov.value) # ov.value)

\* What one merge() call of a merger of kind k returns for a valid strategy
\* st: the composition of the steps of the call.
MergeOutcome(k, src, ov, st) ==
    IF k = "cascade"
    THEN LET m == MergeLoop(ov, st, DictUpdate(<<>>, src), <<>>, <<>>)
         IN  [props |-> m.merged, info |-> m.info, warnings |-> m.warnings]
    ELSE LET es == _expand_all_properties(IF k = "smart" THEN Filter(src, TRUE) ELSE src,
                                          k = "full_expand")
             eo == _expand_all_properties(IF k = "smart" THEN Filter(ov, TRUE) ELSE ov,
                                          k = "full_expand")
             m == _merge_longhands(es.expanded, eo.expanded, st)
             opt == _optimize_to_shorthands(m.merged, GroupsOf(k), BoxNamesOf(k))
             cm == MergeLoop(Filter(ov, FALSE), st, DictUpdate(<<>>, Filter(src, FALSE)), <<>>, <<>>)
         IN  IF k = "smart"
             THEN [props |-> opt \o cm.merged, info |-> m.info \o cm.info,
                   warnings |-> es.warnings \o eo.warnings \o m.warnings \o cm.warnings]
             ELSE [props |-> opt, info |-> m.info,
                   warnings |-> es.warnings \o eo.warnings \o m.warnings]

\* C20: a call of the full-expand or the hybrid merger with a strategy name
\* outside the five (the empty name included) returns the properties and
\* info messages of the same call with 'match', and as warnings one
\* unknown-strategy warning followed by the warnings of that call.
C20_UnknownStrategyFallback ==
    (pc = "done" /\ kind \in {"full_expand", "cascade", "smart", "expand"}
        /\ arg_strategy \notin ValidStrategies) =>
        LET m == MergeOutcome(kind, source, override, "match")
        IN  /\ result = m.props
            /\ info_messages = m.info
            /\ Len(warning_messages) = Len(m.warnings) + 1
            /\ warning_messages[1][1] = "unknown_strategy"
            /\ Tail(warning_messages) = m.warnings

(***************************************************************************)
(* Two merge() calls, one after the other, on one full-expand              *)
(* PropertyMerger                                                          *)
(***************************************************************************)
\* Call 2 starts when call 1 has returned.
Sequential(t) == t = 1 \/ c_pc[1] = "returned"

NextSequential ==
    \/ \E t \in Threads : Sequential(t) /\ T_ResetInfo(t)
    \/ \E t \in Threads : Sequential(t) /\ T_ResetWarnings(t)
    \/ \E t \in Threads : Sequential(t) /\ T_Validate(t)
    \/ \E t \in Threads : Sequential(t) /\ T_ExpandSource(t)
    \/ \E t \in Threads : Sequential(t) /\ T_ExpandOverride(t)
    \/ \E t \in Threads : Sequential(t) /\ T_MergeLonghands(t)
    \/ \E t \in Threads : Sequential(t) /\ T_OptimizeAndReturn(t)

SpecSequential == InitConc /\ [][NextSequential]_vars

\* What a fresh instance returns for the arguments of one call.
FreshOutcome(sc) ==
    LET st0 == IF sc.strategy # NoStrategy THEN sc.strategy ELSE important_strategy
    IN  MergeOutcome("full_expand", sc.source, sc.override,
                     IF st0 \in ValidStrategies THEN st0 ELSE "match")

\* C21: from the moment a call of a sequence has returned, and through every
\* step of the calls after it, the properties it returned and the contents
\* of the info and warning lists it returned are those a fresh instance
\* returns for the same arguments.
C21_NoStateAcrossCalls ==
    \A t \in Threads :
        c_pc[t] = "returned" =>
            /\ c_ret[t].props = FreshOutcome(c_in[t]).props
            /\ heap_info[c_ret[t].info] = OwnMessages(c_in[t]).info
            /\ heap_info[c_ret[t].info] = FreshOutcome(c_in[t]).info
            /\ heap_warn[c_ret[t].warnings] = OwnMessages(c_in[t]).warnings

\* C21 witness: the second call has returned other messages than the first,
\* whose lists were not empty.
C21_Witness ==
    /\ \A t \in Threads : c_pc[t] = "returned"
    /\ heap_info[c_ret[1].info] # <<>>
    /\ heap_info[c_ret[2].info] # heap_info[c_ret[1].info]
    /\ heap_warn[c_ret[2].warnings] # <<>>
    /\ heap_warn[c_ret[1].warnings] = <<>>

(***************************************************************************)
(* One merge() call of a full-expand PropertyMerger, with the CSSProperty  *)
(* objects on a heap                                                       *)
(***************************************************************************)
\* An entry of a name -> object map.
Ref(n, r) == [name |-> n, ref |-> r]

\* The objects a list of constructor calls makes, after those of the heap.
Allocate(heap, props) ==
    [heap |-> heap \o props, refs |-> [i \in DOMAIN props |-> Len(heap) + i]]

\* longhand.important = True, on each object of refs
SetImportant(heap, refs) ==
    [r \in DOMAIN heap |->
        IF r \in SeqToSet(refs) THEN [heap[r] EXCEPT !.important = TRUE] ELSE heap[r]]

\* The map's names with the objects they refer to.
Deref(heap, d) == [i \in DOMAIN d |-> heap[d[i].ref]]

RECURSIVE O_ExpandLoop(_, _, _)
\* The for loop of _expand_all_properties over the objects of a list.
O_ExpandLoop(refs, heap, expanded) ==
    IF refs = <<>> THEN [heap |-> heap, expanded |-> expanded]
    ELSE LET p0 == heap[Head(refs)]
             fixed_name == _fix_property_name(p0.name)
             heap1 == IF fixed_name # p0.name
                      THEN Append(heap, CSSProperty(fixed_name, p0.value, p0.important))
                      ELSE heap
             r == IF fixed_name # p0.name THEN Len(heap1) ELSE Head(refs)
             prop == heap1[r]
         IN  IF is_shorthand(prop.name)
             THEN LET e == expand_shorthand(prop.name, prop.value)
                      made == Allocate(heap1, e.props)
                  IN  IF e.raised
                      THEN O_ExpandLoop(Tail(refs), heap1, DictSet(expanded, Ref(prop.name, r)))
                      ELSE O_ExpandLoop(Tail(refs),
                                        IF prop.important THEN SetImportant(made.heap, made.refs)
                                                          ELSE made.heap,
                                        DictUpdate(expanded,
                                                   [i \in DOMAIN e.props |->
                                                       Ref(e.props[i].name, made.refs[i])]))
             ELSE O_ExpandLoop(Tail(refs), heap1, DictSet(expanded, Ref(prop.name, r)))

\* Mutant of ResultObject: the strategy writes the value and the flag into
\* the override's own object.
ResultObject_InPlace(heap, override_ref, final) ==
    [heap |-> [heap EXCEPT ![override_ref] = final], ref |-> override_ref]

\* result = CSSProperty(name=override.name, value=clean_value,
\* important=has_important) and the strategy's writes to result.important:
\* a new object that ends up holding final.
ResultObject(heap, override_ref, final) ==
    [heap |-> Append(heap, final), ref |-> Len(heap) + 1]

RECURSIVE O_MergeLoop(_, _, _, _)
\* The for loop of _merge_longhands over the entries of the override map.
O_MergeLoop(overrides, st, merged, heap) ==
    IF overrides = <<>> THEN [heap |-> heap, merged |-> merged]
    ELSE LET ov == Head(overrides)
             original_prop == IF DictHas(merged, ov.name)
                              THEN heap[DictGet(merged, ov.name).ref] ELSE None
         IN  IF st = "respect" /\ original_prop # None /\ original_prop.important
             THEN O_MergeLoop(Tail(overrides), st, merged, heap)
             ELSE LET final == _apply_important_strategy(original_prop, heap[ov.ref], st).prop
                      made == ResultObject(heap, ov.ref, final)
                  IN  O_MergeLoop(Tail(overrides), st,
                                  DictSet(merged, Ref(ov.name, made.ref)), made.heap)

ObjScenarios == <<General(MaxTotal - 1), MalformedFamily, PassthroughFamily>>

InitObj ==
    /\ MergeOff
    /\ RTOff
    /\ ConcOff
    /\ ApiOff
    /\ o_pc = "idle"
    /\ o_input = <<>>
    /\ o_source = <<>>
    /\ o_override = <<>>
    /\ o_strategy = NoStrategy
    /\ o_heap = <<>>
    /\ o_expanded_source = <<>>
    /\ o_expanded_override = <<>>
    /\ o_merged = <<>>
    /\ o_result = <<>>

\* merge(source, override, important_strategy): the caller's objects are
\* the first of the heap, the source's before the override's.
O_Call ==
    /\ o_pc = "idle"
    /\ \E f \in DOMAIN ObjScenarios : \E sc \in ObjScenarios[f] :
          /\ o_heap' = sc.source \o sc.override
          /\ o_input' = sc.source \o sc.override
          /\ o_source' = [i \in DOMAIN sc.source |-> i]
          /\ o_override' = [i \in DOMAIN sc.override |-> Len(sc.source) + i]
          /\ o_strategy' = IF sc.strategy \in ValidStrategies THEN sc.strategy ELSE "match"
    /\ o_pc' = "called"
    /\ UNCHANGED <<varsMerge, varsRT, varsConc, varsApi,
                   o_expanded_source, o_expanded_override, o_merged, o_result>>

O_ExpandSource ==
    /\ o_pc = "called"
    /\ LET e == O_ExpandLoop(o_source, o_heap, <<>>)
       IN  /\ o_heap' = e.heap
           /\ o_expanded_source' = e.expanded
    /\ o_pc' = "expanded_source"
    /\ UNCHANGED <<varsMerge, varsRT, varsConc, varsApi, o_input, o_source, o_override,
                   o_strategy, o_expanded_override, o_merged, o_result>>

O_ExpandOverride ==
    /\ o_pc = "expanded_source"
    /\ LET e == O_ExpandLoop(o_override, o_heap, <<>>)
       IN  /\ o_heap' = e.heap
           /\ o_expanded_override' = e.expanded
    /\ o_pc' = "expanded_override"
    /\ UNCHANGED <<varsMerge, varsRT, varsConc, varsApi, o_input, o_source, o_override,
                   o_strategy, o_expanded_source, o_merged, o_result>>

\* merged starts as a copy of the source map: the same objects.
O_MergeLonghands ==
    /\ o_pc = "expanded_override"
    /\ LET m == O_MergeLoop(o_expanded_override, o_strategy,
                            StartFromSource(o_expanded_source), o_heap)
       IN  /\ o_heap' = m.heap
           /\ o_merged' = m.merged
    /\ o_pc' = "merged"
    /\ UNCHANGED <<varsMerge, varsRT, varsConc, varsApi, o_input, o_source, o_override,
                   o_strategy, o_expanded_source, o_expanded_override, o_result>>

\* _optimize_to_shorthands reads the objects of the merged map and writes
\* none of them; o_result is what the objects of the returned list hold.
O_Optimize ==
    /\ o_pc = "merged"
    /\ o_result' = _optimize_to_shorthands(Deref(o_heap, o_merged),
                                           FullExpandGroups, FullExpandBoxNames)
    /\ o_pc' = "done"
    /\ UNCHANGED <<varsMerge, varsRT, varsConc, varsApi, o_input, o_source, o_override,
                   o_strategy, o_heap, o_expanded_source, o_expanded_override, o_merged>>

NextObj == O_Call \/ O_ExpandSource \/ O_ExpandOverride \/ O_MergeLonghands \/ O_Optimize

SpecObjects == InitObj /\ [][NextObj]_vars

\* The objects of the argument lists.
InputRefs == SeqToSet(o_source) \cup SeqToSet(o_override)

\* C22: at every step of a call and after it, the source list and the
\* override list hold the objects they held at the call, and each of these
\* objects has the name, the value and the important flag it had then; and
\* the returned properties are those of the merge computed on values.
C22_InputsNeverMutated ==
    o_pc # "idle" =>
        /\ o_source \o o_override = [i \in DOMAIN o_input |-> i]
        /\ \A r \in InputRefs : o_heap[r] = o_input[r]
        /\ o_pc = "done" =>
              o_result = MergeOutcome("full_expand", Deref(o_input, [i \in DOMAIN o_source |-> Ref("", o_source[i])]),
                                      Deref(o_input, [i \in DOMAIN o_override |-> Ref("", o_override[i])]),
                                      o_strategy).props

\* C22 witness: the call is over; an override object without the flag
\* replaced an important source object under 'match', so the flag was
\* written, and a new object holds it.
C22_Witness ==
    /\ o_pc = "done"
    /\ o_strategy = "match"
    /\ \E s \in SeqToSet(o_source), o \in SeqToSet(o_override) :
          /\ o_heap[s].name = o_heap[o].name
          /\ ~is_shorthand(o_heap[o].name)
          /\ o_heap[s].important /\ ~o_heap[o].important
          /\ ~parse_value_with_important(o_heap[o].value).important
          /\ \E m \in DOMAIN o_merged :
                /\ o_merged[m].name = o_heap[o].name
                /\ o_merged[m].ref \notin InputRefs
                /\ o_heap[o_merged[m].ref].important

(***************************************************************************)
(* resolvers/conflict_detector.py: the lookups, on the instance's tables   *)
(***************************************************************************)
is_longhand(property_name) == property_name \in DOMAIN cd_longhand_to_shorthands

\* self.shorthand_map.get(shorthand, set())
get_longhand_properties(shorthand) ==
    IF shorthand \in DOMAIN cd_shorthand_map THEN cd_shorthand_map[shorthand] ELSE {}

\* self.longhand_to_shorthands.get(longhand, set())
get_shorthand_properties(longhand) ==
    IF longhand \in DOMAIN cd_longhand_to_shorthands
    THEN cd_longhand_to_shorthands[longhand] ELSE {}

get_affected_properties(property_name) ==
    {property_name}
    \cup (IF property_name \in DOMAIN cd_shorthand_map
          THEN cd_shorthand_map[property_name] ELSE {})
    \cup (IF property_name \in DOMAIN cd_longhand_to_shorthands
          THEN cd_longhand_to_shorthands[property_name] ELSE {})

(***************************************************************************)
(* property_merger.py: the simple PropertyMerger                           *)
(***************************************************************************)
\* del d[k] for every key of ks that d has
DictDelAll(d, ks) == SelectSeq(d, LAMBDA p : p.name \notin ks)

RECURSIVE SourceLoop(_, _, _)
\* First loop of merge_properties: a source property is stored, and deleted
\* again when a shorthand of the override has its name among its longhands.
SourceLoop(src, ov, merged_props) ==
    IF src = <<>> THEN merged_props
    ELSE LET prop == Head(src)
             stored == DictSet(merged_props, prop)
             covered == \E i \in DOMAIN ov :
                            /\ ov[i].name \in DOMAIN cd_shorthand_map
                            /\ prop.name \in get_longhand_properties(ov[i].name)
         IN  SourceLoop(Tail(src), ov,
                        IF covered THEN DictDelAll(stored, {prop.name}) ELSE stored)

RECURSIVE OverrideLoop(_, _)
\* Second loop of merge_properties: the other affected names are deleted,
\* then the override property is stored.
OverrideLoop(ov, merged_props) ==
    IF ov = <<>> THEN merged_props
    ELSE LET prop == Head(ov)
             affected == get_affected_properties(prop.name)
         IN  OverrideLoop(Tail(ov),
                          DictSet(DictDelAll(merged_props, affected \ {prop.name}), prop))

merge_properties(src, ov) == OverrideLoop(ov, SourceLoop(src, ov, <<>>))

(***************************************************************************)
(* handlers/shorthand_hybrid.py: HybridShorthandHandler                    *)
(* A Dict[str, str] is a dict of properties whose flag is never set.       *)
(***************************************************************************)
SIMPLE_SHORTHANDS ==
    {"margin", "padding", "border-width", "border-style", "border-color",
     "border-radius", "gap", "overflow", "inset", "place-items", "place-content"}

COMPOUND_SHORTHANDS ==
    {"border", "background", "font", "animation", "transition", "transform-origin",
     "text-decoration", "list-style", "outline", "box-shadow", "flex", "grid"}

SHORTHAND_MAP ==
    ("margin" :> <<"margin-top", "margin-right", "margin-bottom", "margin-left">>) @@
    ("padding" :> <<"padding-top", "padding-right", "padding-bottom", "padding-left">>) @@
    ("border-width" :> <<"border-top-width", "border-right-width",
                         "border-bottom-width", "border-left-width">>) @@
    ("border-style" :> <<"border-top-style", "border-right-style",
                         "border-bottom-style", "border-left-style">>) @@
    ("border-color" :> <<"border-top-color", "border-right-color",
                         "border-bottom-color", "border-left-color">>) @@
    ("border-radius" :> <<"border-top-left-radius", "border-top-right-radius",
                          "border-bottom-right-radius", "border-bottom-left-radius">>) @@
    ("gap" :> <<"row-gap", "column-gap">>) @@
    ("overflow" :> <<"overflow-x", "overflow-y">>) @@
    ("inset" :> <<"top", "right", "bottom", "left">>)

\* value.strip().split(): the tokens of the value
_parse_box_values(value) == value

_expand_simple_shorthand(prop, value) ==
    IF prop \notin DOMAIN SHORTHAND_MAP THEN Returned(<<CSSProperty(prop, value, FALSE)>>)
    ELSE LET longhands == SHORTHAND_MAP[prop]
             values == _parse_box_values(value)
             Entry(i, j) == CSSProperty(longhands[i], <<values[j]>>, FALSE)
         IN  CASE prop \in {"margin", "padding", "border-width", "border-style",
                            "border-color", "inset"} ->
                    Returned(CASE Len(values) = 1 -> <<Entry(1, 1), Entry(2, 1), Entry(3, 1), Entry(4, 1)>>
                               [] Len(values) = 2 -> <<Entry(1, 1), Entry(2, 2), Entry(3, 1), Entry(4, 2)>>
                               [] Len(values) = 3 -> <<Entry(1, 1), Entry(2, 2), Entry(3, 3), Entry(4, 2)>>
                               [] Len(values) = 4 -> <<Entry(1, 1), Entry(2, 2), Entry(3, 3), Entry(4, 4)>>
                               [] OTHER -> <<>>)
               [] prop \in {"gap", "overflow"} ->
                    IF Len(values) = 0 THEN Raised
                    ELSE Returned(<<Entry(1, 1), Entry(2, IF Len(values) > 1 THEN 2 ELSE 1)>>)
               [] OTHER ->
                    Returned([i \in DOMAIN longhands |->
                                 CSSProperty(longhands[i],
                                             IF values # <<>> THEN <<values[1]>> ELSE value, FALSE)])

_is_simple_longhand(prop) ==
    \E k \in DOMAIN SHORTHAND_MAP : prop \in SeqToSet(SHORTHAND_MAP[k])

\* The names of the model that start with each of the compound prefixes.
NamesStartingWith ==
    ("border-" :> {"border-width", "border-style", "border-color", "border-radius",
                   "border-top", "border-right", "border-bottom", "border-left",
                   "border-top-width", "border-right-width", "border-bottom-width", "border-left-width",
                   "border-top-style", "border-right-style", "border-bottom-style", "border-left-style",
                   "border-top-color", "border-right-color", "border-bottom-color", "border-left-color",
                   "border-top-left-radius", "border-top-right-radius",
                   "border-bottom-right-radius", "border-bottom-left-radius",
                   "border-color-top", "border-collapse"}) @@
    ("background-" :> {"background-color", "background-image", "background-repeat",
                       "background-attachment", "background-position", "background-size",
                       "background-origin", "background-clip"}) @@
    ("font-" :> {"font-style", "font-variant", "font-weight", "font-size", "font-family"}) @@
    ("animation-" :> {"animation-name", "animation-duration", "animation-timing-function",
                      "animation-delay", "animation-iteration-count", "animation-direction",
                      "animation-fill-mode", "animation-play-state"}) @@
    ("transition-" :> {"transition-property", "transition-duration",
                       "transition-timing-function", "transition-delay"}) @@
    ("text-decoration-" :> {"text-decoration-line", "text-decoration-color",
                            "text-decoration-style", "text-decoration-thickness"}) @@
    ("list-style-" :> {"list-style-type", "list-style-position", "list-style-image"}) @@
    ("outline-" :> {"outline-width", "outline-style", "outline-color"})

\* prop.startswith(prefix)
StartsWith(prop, prefix) == prop \in NamesStartingWith[prefix]

_is_compound_longhand(prop) ==
    /\ prop \notin SIMPLE_SHORTHANDS
    /\ \E prefix \in DOMAIN NamesStartingWith : StartsWith(prop, prefix)

\* del result[k] for the keys that start with 'border-' and are no simple
\* shorthand, when the compound property is border
_remove_compound_related(res, compound_prop) ==
    IF compound_prop = "border"
    THEN SelectSeq(res, LAMBDA p : ~(StartsWith(p.name, "border-") /\ p.name \notin SIMPLE_SHORTHANDS))
    ELSE res

_should_use_cascade_for_simple(prop, src) ==
    prop \in {"border-width", "border-style", "border-color"} /\ DictHas(src, "border")

\* A handler state is [res, expanded_simple, used, info, raised].
\* _add_cascade_info: one message for each compound parent, at its first use.
_add_cascade_info(h, prop, src) ==
    LET compound_parent ==
            CASE StartsWith(prop, "border-") /\ DictHas(src, "border") -> "border"
              [] StartsWith(prop, "background-") /\ DictHas(src, "background") -> "background"
              [] OTHER -> ""
    IN  IF compound_parent # "" /\ compound_parent \notin h.used
        THEN [h EXCEPT !.used = @ \cup {compound_parent},
                       !.info = Append(@, Msg("cascade_hack", prop))]
        ELSE h

RECURSIVE ProcessSource(_, _)
\* Step 1 of process_properties.
ProcessSource(src, h) ==
    IF src = <<>> \/ h.raised THEN h
    ELSE LET p == Head(src)
             e == _expand_simple_shorthand(p.name, p.value)
         IN  ProcessSource(Tail(src),
                CASE p.name \in SIMPLE_SHORTHANDS ->
                        IF e.raised THEN [h EXCEPT !.raised = TRUE]
                        ELSE [h EXCEPT !.expanded_simple = DictUpdate(@, e.props)]
                  [] p.name \in COMPOUND_SHORTHANDS -> [h EXCEPT !.res = DictSet(@, p)]
                  [] _is_simple_longhand(p.name) -> [h EXCEPT !.expanded_simple = DictSet(@, p)]
                  [] OTHER -> [h EXCEPT !.res = DictSet(@, p)])

RECURSIVE ProcessOverride(_, _, _)
\* Step 2 of process_properties.
ProcessOverride(ov, src, h) ==
    IF ov = <<>> \/ h.raised THEN h
    ELSE LET p == Head(ov)
             e == _expand_simple_shorthand(p.name, p.value)
             popped == DictDelAll(h.expanded_simple,
                                  IF p.name \in DOMAIN SHORTHAND_MAP
                                  THEN SeqToSet(SHORTHAND_MAP[p.name]) ELSE {})
         IN  ProcessOverride(Tail(ov), src,
                CASE p.name \in SIMPLE_SHORTHANDS /\ _should_use_cascade_for_simple(p.name, src) ->
                        _add_cascade_info([h EXCEPT !.res = DictSet(@, p)], p.name, src)
                  [] p.name \in SIMPLE_SHORTHANDS ->
                        IF e.raised THEN [h EXCEPT !.raised = TRUE, !.expanded_simple = popped]
                        ELSE [h EXCEPT !.expanded_simple = DictUpdate(popped, e.props)]
                  [] p.name \in COMPOUND_SHORTHANDS ->
                        [h EXCEPT !.res = _remove_compound_related(DictSet(@, p), p.name)]
                  [] _is_compound_longhand(p.name) ->
                        _add_cascade_info([h EXCEPT !.res = DictSet(@, p)], p.name, src)
                  [] _is_simple_longhand(p.name) -> [h EXCEPT !.expanded_simple = DictSet(@, p)]
                  [] OTHER -> [h EXCEPT !.res = DictSet(@, p)])

\* process_properties: [raised, props, info]; step 3 is
\* result.update(expanded_simple).
process_properties(src, ov) ==
    LET h0 == [res |-> <<>>, expanded_simple |-> <<>>, used |-> {}, info |-> <<>>, raised |-> FALSE]
        h == ProcessOverride(ov, src, ProcessSource(src, h0))
    IN  [raised |-> h.raised,
         props |-> IF h.raised THEN <<>> ELSE DictUpdate(h.res, h.expanded_simple),
         info |-> h.info]

(***************************************************************************)
(* Calls of the ConflictDetector, the simple PropertyMerger and the        *)
(* HybridShorthandHandler                                                  *)
(***************************************************************************)
CatalogLonghands == UNION {shorthand_map[k] : k \in DOMAIN shorthand_map}

UnknownNames == {"color", "border-color-top", "top", ""}

LookupNames == DOMAIN shorthand_map \cup CatalogLonghands \cup UnknownNames

\* Lists of at most two elements of a set.
UpToTwo(S) == {<<>>} \cup {<<p>> : p \in S} \cup {<<p, q>> : p \in S, q \in S}

\* Dicts of at most two entries of a set.
DictsUpToTwo(S) == {d \in UpToTwo(S) : Len(d) = 2 => d[1].name # d[2].name}

SimplePool ==
    { CSSProperty("margin", <<A>>, FALSE),
      CSSProperty("margin-top", <<B>>, FALSE),
      CSSProperty("margin-top", <<C>>, TRUE),
      CSSProperty("color", <<A>>, FALSE),
      CSSProperty("color", <<B>>, FALSE),
      CSSProperty("border-top", <<A, "solid">>, FALSE),
      CSSProperty("border-width", <<B>>, FALSE),
      CSSProperty("border-top-width", <<C>>, FALSE) }

HandlerPool ==
    { CSSProperty("border", <<A, "solid", "red">>, FALSE),
      CSSProperty("border", <<B, "dashed">>, FALSE),
      CSSProperty("border-width", <<B, C>>, FALSE),
      CSSProperty("border-top-width", <<C>>, FALSE),
      CSSProperty("border-left-color", <<"blue">>, FALSE),
      CSSProperty("border-top", <<B, "dashed">>, FALSE),
      CSSProperty("border-radius", <<A>>, FALSE),
      CSSProperty("margin", <<A, B>>, FALSE),
      CSSProperty("margin-top", <<C>>, FALSE),
      CSSProperty("background-color", <<"red">>, FALSE),
      CSSProperty("background", <<"blue">>, FALSE),
      CSSProperty("color", <<"red">>, FALSE),
      CSSProperty("gap", <<>>, FALSE) }

ExpandNames ==
    {"margin", "padding", "border-width", "border-style", "border-color",
     "border-radius", "overflow", "gap", "inset", "place-items"}

InitApi ==
    /\ MergeOff
    /\ RTOff
    /\ ConcOff
    /\ ObjOff
    /\ api_pc = "idle"
    /\ api_op = ""
    /\ api_in = NoArgs
    /\ api_out = NoOutput
    /\ cd_shorthand_map = shorthand_map
    /\ cd_longhand_to_shorthands = longhand_to_shorthands

\* A call that reads the tables and returns.
Returns(op, args, out) ==
    /\ api_op' = op
    /\ api_in' = args
    /\ api_out' = out
    /\ api_pc' = "returned"
    /\ UNCHANGED <<varsMerge, varsRT, varsConc, varsObj, cd_shorthand_map, cd_longhand_to_shorthands>>

Api_is_shorthand ==
    /\ api_pc = "idle"
    /\ \E n \in LookupNames :
           Returns("is_shorthand", [NoArgs EXCEPT !.name = n],
                   [NoOutput EXCEPT !.flag = n \in DOMAIN cd_shorthand_map])

Api_is_longhand ==
    /\ api_pc = "idle"
    /\ \E n \in LookupNames :
           Returns("is_longhand", [NoArgs EXCEPT !.name = n],
                   [NoOutput EXCEPT !.flag = is_longhand(n)])

Api_get_longhand_properties ==
    /\ api_pc = "idle"
    /\ \E n \in LookupNames :
           Returns("get_longhand_properties", [NoArgs EXCEPT !.name = n],
                   [NoOutput EXCEPT !.names = get_longhand_properties(n)])

Api_get_shorthand_properties ==
    /\ api_pc = "idle"
    /\ \E n \in LookupNames :
           Returns("get_shorthand_properties", [NoArgs EXCEPT !.name = n],
                   [NoOutput EXCEPT !.names = get_shorthand_properties(n)])

Api_get_affected_properties ==
    /\ api_pc = "idle"
    /\ \E n \in LookupNames :
           Returns("get_affected_properties", [NoArgs EXCEPT !.name = n],
                   [NoOutput EXCEPT !.names = get_affected_properties(n)])

Api_merge_properties ==
    /\ api_pc = "idle"
    /\ \E src \in UpToTwo(SimplePool), ov \in UpToTwo(SimplePool) :
           Returns("merge_properties", [NoArgs EXCEPT !.source = src, !.override = ov],
                   [NoOutput EXCEPT !.props = merge_properties(src, ov)])

Api_process_properties ==
    /\ api_pc = "idle"
    /\ \E src \in DictsUpToTwo(HandlerPool), ov \in DictsUpToTwo(HandlerPool) :
           LET r == process_properties(src, ov)
           IN  Returns("process_properties", [NoArgs EXCEPT !.source = src, !.override = ov],
                       [NoOutput EXCEPT !.props = r.props, !.info = r.info, !.raised = r.raised])

\* One name and value given to the expander of the handler and to the
\* expander of the ShorthandResolver.
Api_expand ==
    /\ api_pc = "idle"
    /\ \E n \in ExpandNames, v \in TokenSeqs(ValueTokens, 0..4) :
           LET e == _expand_simple_shorthand(n, v)
           IN  Returns("expand", [NoArgs EXCEPT !.name = n, !.value = v],
                       [NoOutput EXCEPT !.props = e.props, !.raised = e.raised,
                                        !.other = expand_shorthand(n, v)])

NextApi ==
    \/ Api_is_shorthand
    \/ Api_is_longhand
    \/ Api_get_longhand_properties
    \/ Api_get_shorthand_properties
    \/ Api_get_affected_properties
    \/ Api_merge_properties
    \/ Api_process_properties
    \/ Api_expand

SpecApi == InitApi /\ [][NextApi]_vars

\* C23: the reverse index is the inverse of the shorthand table (every
\* longhand a lookup gives for a name has that name among its shorthands,
\* and every shorthand a lookup gives for a name has that name among its
\* longhands), for a name
\* in neither table the four lookups return false and the empty set, and
\* after any call, merges included, the two tables are what the constructor
\* built.
C23_CatalogConsistency ==
    /\ \A s \in LookupNames : \A l \in get_longhand_properties(s) :
          s \in get_shorthand_properties(l)
    /\ \A l \in LookupNames : \A s \in get_shorthand_properties(l) :
          l \in get_longhand_properties(s)
    /\ DOMAIN cd_longhand_to_shorthands = CatalogLonghands
    /\ \A l \in CatalogLonghands : cd_longhand_to_shorthands[l] # {}
    /\ (api_pc = "returned" /\ api_in.name \in UnknownNames) =>
          /\ api_op \in {"is_shorthand", "is_longhand"} => ~api_out.flag
          /\ api_op \in {"get_longhand_properties", "get_shorthand_properties"} =>
                api_out.names = {}
    /\ cd_shorthand_map = shorthand_map
    /\ DOMAIN cd_shorthand_map = SeqToSet(ShorthandKeys)

\* C23 witness: a merge has returned, and the longhand border-top-width is
\* still listed under its three shorthands.
C23_Witness ==
    /\ api_pc = "returned"
    /\ api_op = "merge_properties"
    /\ api_in.override # <<>> /\ api_in.source # <<>>
    /\ get_shorthand_properties("border-top-width") = {"border", "border-width", "border-top"}
    /\ get_longhand_properties("nothing") = {}

\* C25: when merge_properties has returned, each name of the override list
\* is in the result, with the value of the last override property of that
\* name.
C25_SimpleOverridePrecedence ==
    (api_pc = "returned" /\ api_op = "merge_properties") =>
        \A i \in DOMAIN api_in.override :
            LET n == api_in.override[i].name
            IN  /\ DictHas(api_out.props, n)
                /\ DictGet(api_out.props, n).value = LastNamed(api_in.override, n).value

\* C29: when process_properties has returned a map for an override that
\* holds border, no border longhand of the map is there because the source
\* gave it: each is a key of the override.
BorderLonghands ==
    SeqToSet(SHORTHAND_MAP["border-width"]) \cup SeqToSet(SHORTHAND_MAP["border-style"])
        \cup SeqToSet(SHORTHAND_MAP["border-color"])

C29_HandlerBorderOverride ==
    (api_pc = "returned" /\ api_op = "process_properties" /\ ~api_out.raised
        /\ DictHas(api_in.override, "border")) =>
        \A i \in DOMAIN api_out.props :
            api_out.props[i].name \in BorderLonghands =>
                DictHas(api_in.override, api_out.props[i].name)

\* The eight shorthands the two expanders share, and their token counts.
SharedExpansion(n, v) ==
    \/ n \in {"margin", "padding", "border-width", "border-style", "border-color", "border-radius"}
          /\ Len(v) \in 1..4
    \/ n \in {"overflow", "gap"} /\ Len(v) \in 1..2

\* C30: for the eight shared shorthands and a value of 1-4 (two axes: 1-2)
\* tokens, _expand_simple_shorthand gives the longhand names and values
\* that expand_shorthand gives.
C30_ExpandersAgree ==
    (api_pc = "returned" /\ api_op = "expand" /\ SharedExpansion(api_in.name, api_in.value)) =>
        /\ ~api_out.raised /\ ~api_out.other.raised
        /\ {<<p.name, p.value>> : p \in SeqToSet(api_out.props)}
             = {<<p.name, p.value>> : p \in SeqToSet(api_out.other.props)}

(***************************************************************************)
(* Cascade mode, override border, recombination                            *)
(***************************************************************************)
RECURSIVE FirstNames(_, _)
\* The names of a list in the order of their first occurrence.
FirstNames(props, seen) ==
    IF props = <<>> THEN <<>>
    ELSE IF Head(props).name \in seen THEN FirstNames(Tail(props), seen)
         ELSE <<Head(props).name>> \o FirstNames(Tail(props), seen \cup {Head(props).name})

NamesOf(props) == [i \in DOMAIN props |-> props[i].name]

\* A call of the hybrid merger in cascade mode has returned.
CascadeDone == pc = "done" /\ kind = "cascade"

\* The result holds one property per input name, no other name, the source
\* names in the order of their first occurrence and then the names of the
\* override alone in override order; a name of both lists has the value
\* expected(n).
CascadeRule(expected(_)) ==
    CascadeDone =>
        /\ NamesOf(result) = FirstNames(source \o override, {})
        /\ \A n \in DictKeys(source) \cap DictKeys(override) :
              DictGet(result, n).value = expected(n)

\* The value of the last override property of that name.
OverrideValue(n) == WithoutAnnotation(LastNamed(override, n).value)

Annotated(p) == parse_value_with_important(p.value).important

\* Under 'respect' an important source property stays, and so does the
\* first override property whose value is annotated !important.
RespectingValue(n) ==
    IF strategy # "respect" THEN OverrideValue(n)
    ELSE IF LastNamed(source, n).important THEN LastNamed(source, n).value
    ELSE IF \E i \in DOMAIN override : override[i].name = n /\ Annotated(override[i])
         THEN WithoutAnnotation(FirstNamed(SelectSeq(override, Annotated), n).value)
         ELSE OverrideValue(n)

C24_WitnessRespect ==
    /\ CascadeDone
    /\ strategy = "respect"
    /\ \E n \in DictKeys(source) \cap DictKeys(override) :
          /\ LastNamed(source, n).important
          /\ OverrideValue(n) # LastNamed(source, n).value
          /\ DictGet(result, n) = LastNamed(source, n)

PerSideShorthands == {"border-top", "border-right", "border-bottom", "border-left"}

\* The override holds a border shorthand that the expander expands into
\* the longhands of each of the given kinds.
OverrideBorderGives(kinds) ==
    \E i \in DOMAIN override :
        /\ override[i].name = "border"
        /\ \A k \in kinds : LastWhere(override[i].value, k, "") # ""

NoImportantSource == \A i \in DOMAIN source : ~source[i].important

\* C26: under 'match' with no important source property, when the override
\* holds a border shorthand that is expanded, each of the twelve border
\* longhands of the merged map is a longhand of the expanded override, with
\* the override's value.
C26_OverrideBorderReplaces ==
    (Merged /\ kind = "full_expand" /\ strategy = "match" /\ NoImportantSource
        /\ (OverrideBorderGives({"width"}) \/ OverrideBorderGives({"style"})
               \/ OverrideBorderGives({"color"}))) =>
        \A i \in DOMAIN merged_longhands :
            merged_longhands[i].name \in BorderLonghands =>
                /\ DictHas(expanded_override, merged_longhands[i].name)
                /\ merged_longhands[i].value
                     = DictGet(expanded_override, merged_longhands[i].name).value

\* C27: when the override holds a border with a width, a style and a colour
\* and the source holds a per-side border shorthand, the result holds no
\* per-side border shorthand and no border longhand that the override did
\* not give.
C27_PerSideBorderReplaced ==
    (pc = "done" /\ kind = "full_expand" /\ OverrideBorderGives({"width", "style", "color"})
        /\ (\E i \in DOMAIN source : source[i].name \in PerSideShorthands)
        /\ (\A j \in DOMAIN override : override[j].name \notin PerSideShorthands)) =>
        \A i \in DOMAIN result :
            /\ result[i].name \notin PerSideShorthands
            /\ result[i].name \in BorderLonghands => DictHas(expanded_override, result[i].name)

\* C28: each shorthand that the full-expand merge recombined expands, with
\* expand_shorthand, into the longhands of its group with the values of the
\* merged map.
C28_RecombinedReexpands ==
    (pc = "done" /\ kind = "full_expand") =>
        \A g \in DOMAIN FullExpandGroups :
            Recombined(FullExpandGroups[g]) =>
                LET names == FullExpandGroups[g].longhands
                    e == expand_shorthand(FullExpandGroups[g].shorthand,
                                          DictGet(result, FullExpandGroups[g].shorthand).value)
                IN  /\ ~e.raised
                    /\ [i \in DOMAIN e.props |-> <<e.props[i].name, e.props[i].value>>]
                         = [i \in DOMAIN names |->
                               <<names[i], DictGet(merged_longhands, names[i]).value>>]

====
